---- MODULE Spec2Model ----
(***************************************************************************)
(* Synchronisation core of the cpen333 library bundled with Amazoom:       *)
(* condition_base (the two-semaphore notify/wait algorithm) and the three  *)
(* shared mutex variants built beside it.  Every semaphore or mutex        *)
(* operation of the source is one step of the model; the statements a      *)
(* thread executes between two such operations while it holds the lock     *)
(* that protects them are folded into the step that took the lock.         *)
(***************************************************************************)
EXTENDS Integers, FiniteSets, Sequences, TLC

(***************************************************************************)
(* Bounds of the model.                                                    *)
(***************************************************************************)
\* number of wait()/wait_for() calls started in one behaviour
MaxWaits == 3

\* number of lock() calls started on one shared_mutex_exclusive in one
\* behaviour
MaxCalls == 3

\* the threads that call into one condition_base
Threads == {1, 2, 3}

\* (std::numeric_limits<long>::max)() / 2 for the 32-bit long of the
\* Windows build
LongMaxHalf == 1073741823

VARIABLES
  \* ---- condition_base: shared state ----
  blocked,        \* waiters_->blocked
  unblock,        \* waiters_->unblock
  gone,           \* waiters_->gone
  block_lock,     \* count of the block_lock_ semaphore (initially 1)
  block_queue,    \* count of the block_queue_ semaphore (initially 0)
  unblock_lock,   \* holder of the unblock_lock_ mutex, 0 when free
  external,       \* holder of the caller's external mutex, 0 when free
  \* ---- condition_base: per-thread position and locals ----
  pc,             \* where each thread is
  timeout,        \* wait(): parameter timeout
  timed_out,      \* wait(): local timed_out
  signals_left,   \* wait(): local signals_left
  waiters_gone,   \* wait(): local waiters_gone
  broadcast,      \* notify(): parameter broadcast
  signals,        \* notify(): local signals
  locked,         \* notify(): the caller holds the external mutex
  ret,            \* value returned by the last wait of the thread
  \* ---- observers (history of the run, read by no action guard) ----
  nwaits,         \* wait calls started so far
  moved,          \* waiters moved from blocked to unblock by notify calls
  woken,          \* wait calls that returned as notified
  took,           \* the wait of the thread consumed a block_queue permit
  owed,           \* a notify_all decided while the thread was parked:
                  \* 1, or 2 when its caller held the external mutex
  need,           \* notify_one decided with an unserved parked waiter
  issued,         \* permits the notify call of the thread decided to post
  served,         \* a notify issued permits since the thread registered
  snap            \* accounting state at the start of an undisturbed wait

cbShared == <<blocked, unblock, gone, block_lock, block_queue>>

cbState == <<blocked, unblock, gone, block_lock, block_queue, unblock_lock,
             external, pc, timeout, timed_out, signals_left, waiters_gone,
             broadcast, signals, locked, ret>>

cbHist == <<nwaits, moved, woken, took, owed, need, issued, served, snap>>

cbVars == <<cbState, cbHist>>

VARIABLES
  \* ---- the shared mutexes: what each thread is doing ----
  mpc,            \* position of each thread in its call; "reading" and
                  \* "writing" are the two critical sections
  result,         \* value returned by the last try_ call of the thread
  ncalls,         \* calls started so far that count against MaxCalls
  \* ---- shared_mutex_shared and shared_mutex_exclusive ----
  shared_,        \* holder of the shared_ mutex, 0 when free
  global_,        \* count of the global_ semaphore (initially 1)
  count_,         \* count_->shared and count_->exclusive
  cond_,          \* value of the cond_ gate: TRUE when open
  \* ---- shared_mutex_fair ----
  mutex_,         \* holder of the mutex_ mutex, 0 when free
  state_,         \* state_->shared[2], this_batch, next_batch, exclusive,
                  \* etotal
  econd_,         \* threads parked on econd_ that no notify has reached
  batch,          \* lock_shared(): local batch, 0 outside its scope
  impl            \* which condition_variable econd_ is: the one of
                  \* cpen333::process or the std one of cpen333::thread

rwVars == <<shared_, global_, count_, cond_>>

fairVars == <<mutex_, state_, econd_, batch, impl>>

mutexVars == <<mpc, result, ncalls, rwVars, fairVars>>

VARIABLES
  \* ---- fifo ----
  fpc,            \* position of each thread in its fifo call
  fval,           \* push(val): the argument of the push in progress
  fout,           \* *out of the last pop or peek of each thread, 0 before
  fret,           \* value returned by the last try_ call of the thread
  psem_,          \* count of psem_: free slots
  csem_,          \* count of csem_: items a consumer may take
  info_,          \* info_->pidx and info_->cidx
  data_,          \* data_[0 .. size-1]
  pushed,         \* the values stored by push_item, in the order stored
  popped          \* the values copied out by pop_item, in the order taken

fifoVars == <<fpc, fval, fout, fret, psem_, csem_, info_, data_, pushed,
              popped>>

VARIABLES
  \* ---- rendezvous ----
  rpc,            \* position of each thread in rendezvous::wait
  rcount,         \* shared_->count, or countdown_ in cpen333::thread
  rcountup,       \* countup_ (cpen333::thread only)
  rsem,           \* count of semaphore_ (cpen333::process only)
  rparked,        \* threads parked on cv_ that no notify_all has reached
  rstarted,       \* wait() calls that have locked mutex_ so far
  rmine,          \* which call, in order of arrival, the thread's last was
  rdone           \* the same for the last call of the thread that returned

rvVars == <<rpc, rcount, rcountup, rsem, rparked, rstarted, rmine, rdone>>

VARIABLES
  \* ---- condition (the latch) ----
  lpc,            \* position of each thread in wait() / notify()
  lvalue,         \* storage_->value, or open_ in cpen333::thread
  lparked,        \* threads waiting that no notification has reached
  lcalls,         \* wait() calls made so far
  llast           \* which of notify() and reset() wrote the value last

latchVars == <<lpc, lvalue, lparked, lcalls, llast>>

VARIABLES
  \* ---- the width of long ----
  half            \* (std::numeric_limits<long>::max)() / 2 of the build

VARIABLES
  \* ---- the fifo with several producers ----
  fowner          \* the thread that pushed each value

\* the groups added after the fifo
extVars == <<rvVars, latchVars, half, fowner>>

vars == <<cbVars, mutexVars, fifoVars, extVars>>

\* what a step of the condition leaves alone
CbFrame == UNCHANGED <<mutexVars, fifoVars, extVars>>

NoSnap == <<>>

\* waiters counted in blocked that have not yet been through the
\* accounting section
Registered == {"release_gate", "unlock_external", "queue"}

\* threads inside wait()
InWait == {"block_lock", "inc_blocked", "release_gate", "unlock_external",
           "queue", "account", "drain", "open_gate", "relock"}

\* threads inside notify()
InNotify == {"notify", "close_gate", "post", "notify_return"}

\* untimed waiters parked on block_queue_
Parked == {u \in Threads : pc[u] = "queue" /\ ~timeout[u]}

RECURSIVE SumOver(_, _)
SumOver(f, S) ==
  IF S = {} THEN 0
  ELSE LET x == CHOOSE y \in S : TRUE IN f[x] + SumOver(f, S \ {x})

\* permits that notify calls have decided to post and not yet posted
PendingPosts == SumOver(signals, {u \in Threads : pc[u] = "post"})

(***************************************************************************)
(* Observer bookkeeping shared by all steps: a step of thread t that       *)
(* changes the accounting state ends the undisturbed wait of every other   *)
(* thread.                                                                 *)
(***************************************************************************)
Observe(t, own) ==
  snap' = [u \in Threads |->
             IF u = t THEN own
             ELSE IF cbShared' # cbShared THEN NoSnap ELSE snap[u]]

(***************************************************************************)
(* Initial state: condition_base constructor.                              *)
(***************************************************************************)
CbInit ==
  /\ blocked = 0 /\ unblock = 0 /\ gone = 0
  /\ block_lock = 1 /\ block_queue = 0
  /\ unblock_lock = 0 /\ external = 0
  /\ pc = [t \in Threads |-> "idle"]
  /\ timeout = [t \in Threads |-> FALSE]
  /\ timed_out = [t \in Threads |-> FALSE]
  /\ signals_left = [t \in Threads |-> 0]
  /\ waiters_gone = [t \in Threads |-> 0]
  /\ broadcast = [t \in Threads |-> FALSE]
  /\ signals = [t \in Threads |-> 0]
  /\ locked = [t \in Threads |-> FALSE]
  /\ ret = [t \in Threads |-> FALSE]
  /\ nwaits = 0 /\ moved = 0 /\ woken = 0
  /\ took = [t \in Threads |-> FALSE]
  /\ owed = [t \in Threads |-> 0]
  /\ need = [t \in Threads |-> FALSE]
  /\ issued = [t \in Threads |-> 0]
  /\ served = [t \in Threads |-> FALSE]
  /\ snap = [t \in Threads |-> NoSnap]


(***************************************************************************)
(* Initial state of the shared mutexes: the three constructors.  The       *)
(* size_t counters are held as the signed representative of their value    *)
(* modulo 2^64, so that SIZE_MAX is -1 and `== 0`, `== 1` read the same.   *)
(***************************************************************************)
Impls == {"process", "thread"}

MutexInit ==
  /\ mpc = [t \in Threads |-> "idle"]
  /\ result = [t \in Threads |-> "none"]
  /\ ncalls = 0
  /\ shared_ = 0
  /\ global_ = 1
  /\ count_ = [shared |-> 0, exclusive |-> 0]
  /\ cond_ = TRUE
  /\ mutex_ = 0
  /\ state_ = [shared |-> [i \in {0, 1} |-> 0], this_batch |-> 0, next_batch |-> 1,
               exclusive |-> 0, etotal |-> 0]
  /\ econd_ = {}
  /\ batch = [t \in Threads |-> 0]

\* the capacity given to the constructor
FifoSize == 2

\* push calls that get past psem_ in one run
MaxPush == 4

\* fifo::fifo: psem_ starts at size, csem_ at 0, both indices at 0
FifoInit ==
  /\ fpc = [t \in Threads |-> "idle"]
  /\ fval = [t \in Threads |-> 0]
  /\ fout = [t \in Threads |-> 0]
  /\ fret = [t \in Threads |-> "none"]
  /\ psem_ = FifoSize
  /\ csem_ = 0
  /\ info_ = [pidx |-> 0, cidx |-> 0]
  /\ data_ = [i \in 0 .. FifoSize - 1 |-> 0]
  /\ pushed = <<>>
  /\ popped = <<>>

\* the size given to the constructor of the rendezvous: every thread is
\* one of its parties
RendezvousSize == Cardinality(Threads)

\* rendezvous::rendezvous: count starts at size, semaphore_ at 0;
\* countdown_ at size and countup_ at 0
RvInit ==
  /\ rpc = [t \in Threads |-> "idle"]
  /\ rcount = RendezvousSize
  /\ rcountup = 0
  /\ rsem = 0
  /\ rparked = {}
  /\ rstarted = 0
  /\ rmine = [t \in Threads |-> 0]
  /\ rdone = [t \in Threads |-> 0]

\* condition::condition(value = false)
LatchInit ==
  /\ lpc = [t \in Threads |-> "idle"]
  /\ lvalue = FALSE
  /\ lparked = {}
  /\ lcalls = 0
  /\ llast = "none"

\* no value has been pushed
OwnerInit == fowner = [v \in 1 .. MaxPush |-> 0]

ExtInit == RvInit /\ LatchInit /\ half = LongMaxHalf /\ OwnerInit

(***************************************************************************)
(* Pieces of wait() and notify() that the steps below use.                 *)
(***************************************************************************)
\* a wait on block_queue_ that goes through with no permit there
QueueReadyAtZero == block_queue >= 0

\* semaphore::wait() on block_queue_ can take a permit
QueueReady == block_queue > 0

\* notify(): `waiters_->blocked > waiters_->gone`
HasWaiters == blocked > gone

\* a wait that returns timed_out itself
WaitResultPlain(t) == timed_out[t]

\* wait(): `return !timed_out`
WaitResult(t) == ~timed_out[t]

\* a wait that leaves without counting itself in gone
GoneKept == gone

\* wait(): `++(waiters_->gone)` of a wait that ends with no generation
\* in flight
GoneAfterLeave == gone + 1

\* a waiter that never takes itself for the last of its generation
LastToUnblockNever == FALSE

\* a waiter that takes itself for the last while one more is to come
LastToUnblockEarly == unblock - 1 <= 1

\* wait(): `if (--(waiters_->unblock) == 0)`
LastToUnblock == unblock - 1 = 0

\* wait(): blocked after the `if (timed_out)` correction inside a generation
BlockedAfterTimeout(t) ==
  IF timed_out[t] /\ blocked # 0 THEN blocked - 1 ELSE blocked

\* wait(): gone after the `if (timed_out)` correction inside a generation
GoneAfterTimeout(t) ==
  IF timed_out[t] /\ blocked = 0 THEN gone + 1 ELSE gone

\* notify(): the number of waiters one call moves from blocked to unblock
SignalsFor(bc, nblocked) == IF bc THEN nblocked ELSE 1

(***************************************************************************)
(* wait(lock, timeout, abs_time)                                           *)
(***************************************************************************)
\* The caller locks the external mutex and calls wait (tm = FALSE) or
\* wait_for / wait_until (tm = TRUE).
CallWait(t, tm) ==
  /\ pc[t] = "idle"
  /\ nwaits < MaxWaits
  /\ external = 0
  /\ external' = t
  /\ pc' = [pc EXCEPT ![t] = "block_lock"]
  /\ timeout' = [timeout EXCEPT ![t] = tm]
  /\ nwaits' = nwaits + 1
  /\ UNCHANGED <<blocked, unblock, gone, block_lock, block_queue,
                 unblock_lock, timed_out, signals_left, waiters_gone,
                 broadcast, signals, locked, ret>>
  /\ UNCHANGED <<moved, woken, took, owed, need, issued, served>>
  /\ Observe(t, cbShared)
  /\ CbFrame

\* semaphore_guard constructor: block_lock_.wait()
WaitBlockLock(t) ==
  /\ pc[t] = "block_lock"
  /\ block_lock > 0
  /\ block_lock' = block_lock - 1
  /\ pc' = [pc EXCEPT ![t] = "inc_blocked"]
  /\ UNCHANGED <<blocked, unblock, gone, block_queue, unblock_lock, external,
                 timeout, timed_out, signals_left, waiters_gone, broadcast,
                 signals, locked, ret>>
  /\ UNCHANGED <<nwaits, moved, woken, took, owed, need, issued, served>>
  /\ Observe(t, snap[t])
  /\ CbFrame

\* ++(waiters_->blocked)
WaitIncBlocked(t) ==
  /\ pc[t] = "inc_blocked"
  /\ blocked' = blocked + 1
  /\ pc' = [pc EXCEPT ![t] = "release_gate"]
  /\ UNCHANGED <<unblock, gone, block_lock, block_queue, unblock_lock,
                 external, timeout, timed_out, signals_left, waiters_gone,
                 broadcast, signals, locked, ret>>
  /\ UNCHANGED <<nwaits, moved, woken, took, owed, need, issued, served>>
  /\ Observe(t, snap[t])
  /\ CbFrame

\* semaphore_guard destructor: block_lock_.notify()
WaitReleaseGate(t) ==
  /\ pc[t] = "release_gate"
  /\ block_lock' = block_lock + 1
  /\ pc' = [pc EXCEPT ![t] = "unlock_external"]
  /\ UNCHANGED <<blocked, unblock, gone, block_queue, unblock_lock, external,
                 timeout, timed_out, signals_left, waiters_gone, broadcast,
                 signals, locked, ret>>
  /\ UNCHANGED <<nwaits, moved, woken, took, owed, need, issued, served>>
  /\ Observe(t, snap[t])
  /\ CbFrame

\* lock_guard over the lock_inverter: lock_.unlock()
WaitUnlockExternal(t) ==
  /\ pc[t] = "unlock_external"
  /\ external' = 0
  /\ pc' = [pc EXCEPT ![t] = "queue"]
  /\ UNCHANGED <<blocked, unblock, gone, block_lock, block_queue,
                 unblock_lock, timeout, timed_out, signals_left, waiters_gone,
                 broadcast, signals, locked, ret>>
  /\ UNCHANGED <<nwaits, moved, woken, took, owed, need, issued, served>>
  /\ Observe(t, snap[t])
  /\ CbFrame

\* block_queue_.wait(), or block_queue_.wait_until() that gets a permit
WaitQueue(t) ==
  /\ pc[t] = "queue"
  /\ QueueReady
  /\ block_queue' = block_queue - 1
  /\ timed_out' = [timed_out EXCEPT ![t] = FALSE]
  /\ took' = [took EXCEPT ![t] = TRUE]
  /\ pc' = [pc EXCEPT ![t] = "account"]
  /\ UNCHANGED <<blocked, unblock, gone, block_lock, unblock_lock, external,
                 timeout, signals_left, waiters_gone, broadcast, signals,
                 locked, ret>>
  /\ UNCHANGED <<nwaits, moved, woken, owed, need, issued, served>>
  /\ Observe(t, snap[t])
  /\ CbFrame

\* block_queue_.wait_until() that reaches abs_time while block_queue_ holds
\* no permit
WaitQueueTimeout(t) ==
  /\ pc[t] = "queue"
  /\ timeout[t]
  /\ ~QueueReady
  /\ timed_out' = [timed_out EXCEPT ![t] = TRUE]
  /\ pc' = [pc EXCEPT ![t] = "account"]
  /\ UNCHANGED <<blocked, unblock, gone, block_lock, block_queue,
                 unblock_lock, external, timeout, signals_left, waiters_gone,
                 broadcast, signals, locked, ret>>
  /\ UNCHANGED <<nwaits, moved, woken, took, owed, need, issued, served>>
  /\ Observe(t, snap[t])
  /\ CbFrame

\* The section under unblock_lock_.  The fold at half takes and
\* releases block_lock_ around two assignments, so it is part of the step
\* and the step waits for the gate.
WaitAccount(t) ==
  /\ pc[t] = "account"
  /\ unblock_lock = 0
  /\ IF unblock # 0
       THEN LET b1 == BlockedAfterTimeout(t)
                g1 == GoneAfterTimeout(t)
                last == LastToUnblock
            IN /\ blocked' = b1
               /\ unblock' = unblock - 1
               /\ IF last /\ b1 # 0
                    THEN /\ block_lock' = block_lock + 1
                         /\ gone' = g1
                         /\ signals_left' = [signals_left EXCEPT ![t] = 0]
                         /\ waiters_gone' = [waiters_gone EXCEPT ![t] = 0]
                         /\ pc' = [pc EXCEPT ![t] = "relock"]
                    ELSE IF last
                    THEN /\ block_lock' = block_lock
                         /\ gone' = 0
                         /\ signals_left' = [signals_left EXCEPT ![t] = 1]
                         /\ waiters_gone' = [waiters_gone EXCEPT ![t] = g1]
                         /\ pc' = [pc EXCEPT ![t] =
                                     IF g1 # 0 THEN "drain" ELSE "open_gate"]
                    ELSE /\ block_lock' = block_lock
                         /\ gone' = g1
                         /\ signals_left' =
                              [signals_left EXCEPT ![t] = unblock]
                         /\ waiters_gone' = [waiters_gone EXCEPT ![t] = 0]
                         /\ pc' = [pc EXCEPT ![t] = "relock"]
       ELSE /\ unblock' = unblock
            /\ block_lock' = block_lock
            /\ signals_left' = [signals_left EXCEPT ![t] = 0]
            /\ waiters_gone' = [waiters_gone EXCEPT ![t] = 0]
            /\ pc' = [pc EXCEPT ![t] = "relock"]
            /\ IF GoneAfterLeave = half
                 THEN /\ block_lock > 0
                      /\ blocked' = blocked - GoneAfterLeave
                      /\ gone' = 0
                 ELSE /\ blocked' = blocked
                      /\ gone' = GoneAfterLeave
  /\ UNCHANGED <<block_queue, unblock_lock, external, timeout, timed_out,
                 broadcast, signals, locked, ret>>
  /\ UNCHANGED <<nwaits, moved, woken, took, owed, need, issued, served>>
  /\ Observe(t, snap[t])
  /\ CbFrame

\* `while (waiters_gone > 0) { --waiters_gone; block_queue_.wait(); }`
WaitDrain(t) ==
  /\ pc[t] = "drain"
  /\ QueueReady
  /\ block_queue' = block_queue - 1
  /\ waiters_gone' = [waiters_gone EXCEPT ![t] = waiters_gone[t] - 1]
  /\ pc' = [pc EXCEPT ![t] =
              IF waiters_gone[t] - 1 > 0 THEN "drain" ELSE "open_gate"]
  /\ UNCHANGED <<blocked, unblock, gone, block_lock, unblock_lock, external,
                 timeout, timed_out, signals_left, broadcast, signals, locked,
                 ret>>
  /\ UNCHANGED <<nwaits, moved, woken, took, owed, need, issued, served>>
  /\ Observe(t, snap[t])
  /\ CbFrame

\* `block_lock_.notify()` of the thread that saw one signal left
WaitOpenGate(t) ==
  /\ pc[t] = "open_gate"
  /\ block_lock' = block_lock + 1
  /\ pc' = [pc EXCEPT ![t] = "relock"]
  /\ UNCHANGED <<blocked, unblock, gone, block_queue, unblock_lock, external,
                 timeout, timed_out, signals_left, waiters_gone, broadcast,
                 signals, locked, ret>>
  /\ UNCHANGED <<nwaits, moved, woken, took, owed, need, issued, served>>
  /\ Observe(t, snap[t])
  /\ CbFrame

\* destructor of the lock_guard over the lock_inverter: lock_.lock(),
\* then `return !timed_out`
WaitRelock(t) ==
  /\ pc[t] = "relock"
  /\ external = 0
  /\ external' = t
  /\ ret' = [ret EXCEPT ![t] = WaitResult(t)]
  /\ woken' = woken + (IF WaitResult(t) THEN 1 ELSE 0)
  /\ pc' = [pc EXCEPT ![t] = "returned"]
  /\ UNCHANGED <<blocked, unblock, gone, block_lock, block_queue,
                 unblock_lock, timeout, timed_out, signals_left, waiters_gone,
                 broadcast, signals, locked>>
  /\ UNCHANGED <<nwaits, moved, took, owed, need, issued, served>>
  /\ Observe(t, snap[t])
  /\ CbFrame

\* The caller unlocks the external mutex after wait has returned.
CallerUnlock(t) ==
  /\ pc[t] = "returned"
  /\ external' = 0
  /\ pc' = [pc EXCEPT ![t] = "idle"]
  /\ timeout' = [timeout EXCEPT ![t] = FALSE]
  /\ timed_out' = [timed_out EXCEPT ![t] = FALSE]
  /\ signals_left' = [signals_left EXCEPT ![t] = 0]
  /\ waiters_gone' = [waiters_gone EXCEPT ![t] = 0]
  /\ ret' = [ret EXCEPT ![t] = FALSE]
  /\ took' = [took EXCEPT ![t] = FALSE]
  /\ owed' = [owed EXCEPT ![t] = 0]
  /\ served' = [served EXCEPT ![t] = FALSE]
  /\ UNCHANGED <<blocked, unblock, gone, block_lock, block_queue,
                 unblock_lock, broadcast, signals, locked>>
  /\ UNCHANGED <<nwaits, moved, woken, need, issued>>
  /\ Observe(t, NoSnap)
  /\ CbFrame


(***************************************************************************)
(* notify(broadcast)                                                       *)
(***************************************************************************)
\* Observers of a notify call that decided to post n permits.
Decided(t, n) ==
  /\ issued' = [issued EXCEPT ![t] = n]
  /\ moved' = moved + n
  /\ served' = [u \in Threads |->
                  served[u] \/ (n > 0 /\ pc[u] \in Registered)]

\* notify_one() (bc = FALSE) or notify_all() (bc = TRUE); with lk the caller
\* holds the external mutex around the call, as the users of
\* condition_variable do.
CallNotify(t, bc, lk) ==
  /\ pc[t] = "idle"
  /\ lk => external = 0
  /\ external' = IF lk THEN t ELSE external
  /\ locked' = [locked EXCEPT ![t] = lk]
  /\ broadcast' = [broadcast EXCEPT ![t] = bc]
  /\ pc' = [pc EXCEPT ![t] = "notify"]
  /\ UNCHANGED <<blocked, unblock, gone, block_lock, block_queue,
                 unblock_lock, timeout, timed_out, signals_left, waiters_gone,
                 signals, ret>>
  /\ UNCHANGED <<nwaits, moved, woken, took, owed, need, issued, served>>
  /\ Observe(t, snap[t])
  /\ CbFrame

\* The section under unblock_lock_ up to `block_lock_.wait()`.
NotifyDecide(t) ==
  /\ pc[t] = "notify"
  /\ unblock_lock = 0
  /\ owed' = [u \in Threads |->
                IF broadcast[t] /\ u \in Parked
                  THEN (IF locked[t] THEN 2 ELSE IF owed[u] = 2 THEN 2 ELSE 1)
                  ELSE owed[u]]
  /\ need' = [need EXCEPT ![t] =
                ~broadcast[t]
                /\ Cardinality(Parked) > block_queue + PendingPosts]
  /\ IF unblock # 0
       THEN IF blocked = 0
              THEN /\ pc' = [pc EXCEPT ![t] = "notify_return"]
                   /\ Decided(t, 0)
                   /\ UNCHANGED <<blocked, unblock, signals, unblock_lock>>
              ELSE LET n == SignalsFor(broadcast[t], blocked)
                   IN /\ signals' = [signals EXCEPT ![t] = n]
                      /\ unblock' = unblock + n
                      /\ blocked' = blocked - n
                      /\ pc' = [pc EXCEPT ![t] = "post"]
                      /\ Decided(t, n)
                      /\ UNCHANGED unblock_lock
       ELSE IF HasWaiters
              THEN /\ unblock_lock' = t
                   /\ pc' = [pc EXCEPT ![t] = "close_gate"]
                   /\ UNCHANGED <<blocked, unblock, signals>>
                   /\ UNCHANGED <<issued, moved, served>>
              ELSE /\ pc' = [pc EXCEPT ![t] = "notify_return"]
                   /\ Decided(t, 0)
                   /\ UNCHANGED <<blocked, unblock, signals, unblock_lock>>
  /\ UNCHANGED <<gone, block_lock, block_queue, external, timeout, timed_out,
                 signals_left, waiters_gone, broadcast, locked, ret>>
  /\ UNCHANGED <<nwaits, woken, took>>
  /\ Observe(t, snap[t])
  /\ CbFrame

\* `block_lock_.wait()` and the rest of the section under unblock_lock_.
NotifyCloseGate(t) ==
  /\ pc[t] = "close_gate"
  /\ block_lock > 0
  /\ block_lock' = block_lock - 1
  /\ LET b1 == IF gone # 0 THEN blocked - gone ELSE blocked
         n == SignalsFor(broadcast[t], b1)
     IN /\ gone' = 0
        /\ signals' = [signals EXCEPT ![t] = n]
        /\ unblock' = n
        /\ blocked' = b1 - n
        /\ Decided(t, n)
        /\ pc' = [pc EXCEPT ![t] = IF n > 0 THEN "post" ELSE "notify_return"]
  /\ unblock_lock' = 0
  /\ UNCHANGED <<block_queue, external, timeout, timed_out, signals_left,
                 waiters_gone, broadcast, locked, ret>>
  /\ UNCHANGED <<nwaits, woken, took, owed, need>>
  /\ Observe(t, snap[t])
  /\ CbFrame

\* `while (signals > 0) { --signals; block_queue_.notify(); }`
NotifyPost(t) ==
  /\ pc[t] = "post"
  /\ signals' = [signals EXCEPT ![t] = signals[t] - 1]
  /\ block_queue' = block_queue + 1
  /\ pc' = [pc EXCEPT ![t] =
              IF signals[t] - 1 > 0 THEN "post" ELSE "notify_return"]
  /\ UNCHANGED <<blocked, unblock, gone, block_lock, unblock_lock, external,
                 timeout, timed_out, signals_left, waiters_gone, broadcast,
                 locked, ret>>
  /\ UNCHANGED <<nwaits, moved, woken, took, owed, need, issued, served>>
  /\ Observe(t, snap[t])
  /\ CbFrame

\* notify returns; a caller that locked the external mutex unlocks it.
NotifyReturn(t) ==
  /\ pc[t] = "notify_return"
  /\ external' = IF locked[t] THEN 0 ELSE external
  /\ locked' = [locked EXCEPT ![t] = FALSE]
  /\ broadcast' = [broadcast EXCEPT ![t] = FALSE]
  /\ need' = [need EXCEPT ![t] = FALSE]
  /\ issued' = [issued EXCEPT ![t] = 0]
  /\ pc' = [pc EXCEPT ![t] = "idle"]
  /\ UNCHANGED <<blocked, unblock, gone, block_lock, block_queue,
                 unblock_lock, timeout, timed_out, signals_left, waiters_gone,
                 signals, ret>>
  /\ UNCHANGED <<nwaits, moved, woken, took, owed, served>>
  /\ Observe(t, snap[t])
  /\ CbFrame

(***************************************************************************)
(* Specification of condition_base: any number of threads calling wait,    *)
(* wait_for, notify_one and notify_all in any order.                       *)
(***************************************************************************)
Init == CbInit /\ MutexInit /\ FifoInit /\ ExtInit /\ impl = "process"

Next ==
  \E t \in Threads :
    \/ \E tm \in BOOLEAN : CallWait(t, tm)
    \/ WaitBlockLock(t)
    \/ WaitIncBlocked(t)
    \/ WaitReleaseGate(t)
    \/ WaitUnlockExternal(t)
    \/ WaitQueue(t)
    \/ WaitQueueTimeout(t)
    \/ WaitAccount(t)
    \/ WaitDrain(t)
    \/ WaitOpenGate(t)
    \/ WaitRelock(t)
    \/ CallerUnlock(t)
    \/ \E bc \in BOOLEAN, lk \in BOOLEAN : CallNotify(t, bc, lk)
    \/ NotifyDecide(t)
    \/ NotifyCloseGate(t)
    \/ NotifyPost(t)
    \/ NotifyReturn(t)

Spec == Init /\ [][Next]_vars


(***************************************************************************)
(* Properties of condition_base.                                           *)
(***************************************************************************)
\* No call is in progress except untimed waits parked on an empty
\* block_queue_: nothing moves until some thread makes a new call.
Quiet ==
  /\ \A u \in Threads : pc[u] = "idle" \/ u \in Parked
  /\ block_queue = 0

\* No thread is inside wait().
NoWaiter == \A u \in Threads : pc[u] \notin InWait

\* C1: every untimed waiter that is parked in wait() when notify_all()
\* takes its decision returns from wait() without a further notify: it is
\* never left parked, with no permit, in a state where no call is in
\* progress.
C1_NotifyAllWakesParked ==
  ~(\E t \in Threads : owed[t] > 0 /\ pc[t] = "queue" /\ Quiet)

\* C2: a notify_one() that takes its decision while more untimed waiters are
\* parked than there are permits posted or about to be posted wakes exactly
\* one waiter: it posts one permit, never none.
C2_NotifyOneWakesOne ==
  \A t \in Threads :
    (pc[t] \in {"post", "notify_return"} /\ need[t]) => issued[t] = 1

\* C3, first part: a notify that takes its decision while no thread is inside
\* wait() returns at once and leaves blocked, unblock, gone and both
\* semaphore counts as they were.
NotifyNoWaiterFrame ==
  \A t \in Threads :
    (NotifyDecide(t) /\ NoWaiter)
      => (cbShared' = cbShared /\ pc'[t] = "notify_return")

\* C3, second part: no permit is banked.  When no call is in progress
\* block_queue_ is empty, and a wait that returns as notified was served by a
\* notify that took its decision after that wait had registered.
NoBankedWake ==
  /\ (\A u \in Threads : pc[u] = "idle") => block_queue = 0
  /\ \A t \in Threads : (pc[t] = "returned" /\ ret[t]) => served[t]

\* C3: notify_one() or notify_all() called while no waiter is blocked is a
\* no-op on blocked, unblock, gone and both semaphore counts, and no wake is
\* banked for a wait that starts after the notify call has returned.
C3_NotifyWithoutWaiterIsNoOp ==
  [][NotifyNoWaiterFrame]_vars /\ []NoBankedWake

\* C4: no spurious wake-up.  An untimed wait returns only after it took a
\* permit from block_queue_, and the waits that have returned as notified
\* never outnumber the waiters that notify calls moved from blocked to
\* unblock.
C4_NoSpuriousWakeup ==
  /\ woken <= moved
  /\ block_queue >= 0
  /\ \A t \in Threads :
       (pc[t] = "returned" /\ ~timeout[t]) => (took[t] /\ ret[t])

\* C4 witness: two waits have returned as notified.
C4_Witness == woken = 2 /\ moved = 2

\* C5: wait(lock) counts the caller in blocked before it releases the
\* external lock and holds the lock again when it returns; so an untimed
\* waiter that has released the lock when a notifier holding that lock
\* calls notify_all() is woken by that call.
C5_NoLostNotification ==
  /\ \A t \in Threads :
       pc[t] \in {"block_lock", "inc_blocked", "release_gate",
                  "unlock_external", "returned"} => external = t
  /\ ~(\E t \in Threads : owed[t] = 2 /\ pc[t] = "queue" /\ Quiet)

\* C6: wait_for / wait_until return true exactly when the call took a permit
\* that a notify posted, and false exactly when the wait on block_queue_
\* ran out of time.
C6_TimedWaitResult ==
  \A t \in Threads :
    (pc[t] = "returned" /\ timeout[t]) => (ret[t] <=> took[t])

\* C6 witness: a timed wait has returned true after an earlier timed wait
\* returned false.
C6_Witness ==
  \E t \in Threads :
    /\ pc[t] = "returned" /\ timeout[t] /\ ret[t]
    /\ \A u \in Threads \ {t} : pc[u] = "idle"
    /\ woken < nwaits

\* A timed wait of thread t has returned false and no other thread changed
\* the accounting state while it ran.
TimedOutAlone(t) ==
  pc[t] = "returned" /\ timeout[t] /\ ~ret[t] /\ snap[t] # NoSnap

Readers == {t \in Threads : mpc[t] = "reading"}

Writers == {t \in Threads : mpc[t] = "writing"}

\* the other implementation's variables, which no step of the two
\* semaphore-based mutexes touches
RwFrame == UNCHANGED <<cbVars, fairVars, fifoVars, extVars>>

\* a global_ semaphore that lets a caller through at count zero
GlobalFreeAtZero == global_ >= 0

\* semaphore::wait() / try_wait() / wait_until() on global_ can take the
\* permit
GlobalFree == global_ > 0

\* a reader count that takes global_ for the second reader
FirstReaderSecond(n) == n = 2

\* lock_shared(): `++(count_->shared) == 1`, the reader that takes global_
FirstReader(n) == n = 1

\* readers that never give global_ back
LastReaderNever(n) == FALSE

\* unlock_shared(): `--(count_->shared) == 0`, the reader that gives
\* global_ back
LastReader(n) == n = 0

(***************************************************************************)
(* shared_mutex_shared: read priority                                      *)
(***************************************************************************)
\* lock_shared(): lock shared_, count the reader; the first reader keeps
\* shared_ and goes on to wait for global_
SmShared_lock_shared(t) ==
  /\ mpc[t] = "idle"
  /\ shared_ = 0
  /\ count_' = [count_ EXCEPT !.shared = count_.shared + 1]
  /\ IF FirstReader(count_.shared + 1)
       THEN /\ shared_' = t
            /\ mpc' = [mpc EXCEPT ![t] = "lock_shared_global"]
       ELSE /\ shared_' = 0
            /\ mpc' = [mpc EXCEPT ![t] = "reading"]
  /\ UNCHANGED <<result, ncalls, global_, cond_>>
  /\ RwFrame

\* lock_shared(): `global_.wait()` of the first reader, then the lock_guard
\* releases shared_
SmShared_lock_shared_global(t) ==
  /\ mpc[t] = "lock_shared_global"
  /\ GlobalFree
  /\ global_' = global_ - 1
  /\ shared_' = 0
  /\ mpc' = [mpc EXCEPT ![t] = "reading"]
  /\ UNCHANGED <<result, ncalls, count_, cond_>>
  /\ RwFrame

\* try_lock_shared()
SmShared_try_lock_shared(t) ==
  /\ mpc[t] = "idle"
  /\ IF shared_ # 0
       THEN \* `if (!lock.try_lock()) return false`
            /\ result' = [result EXCEPT ![t] = "false"]
            /\ UNCHANGED <<mpc, global_, count_>>
       ELSE IF count_.shared = 0
       THEN IF GlobalFree
              THEN /\ global_' = global_ - 1
                   /\ count_' = [count_ EXCEPT !.shared = 1]
                   /\ mpc' = [mpc EXCEPT ![t] = "reading"]
                   /\ result' = [result EXCEPT ![t] = "true"]
              ELSE /\ result' = [result EXCEPT ![t] = "false"]
                   /\ UNCHANGED <<mpc, global_, count_>>
       ELSE /\ count_' = [count_ EXCEPT !.shared = count_.shared + 1]
            /\ mpc' = [mpc EXCEPT ![t] = "reading"]
            /\ result' = [result EXCEPT ![t] = "true"]
            /\ UNCHANGED global_
  /\ UNCHANGED <<ncalls, shared_, cond_>>
  /\ RwFrame

\* try_lock_shared_until(): `lock.try_lock_until(timeout_time)` on shared_
\* and, with readers already in, the increment
SmShared_try_lock_shared_until(t) ==
  /\ mpc[t] = "idle"
  /\ IF shared_ # 0
       THEN \* timed out on shared_
            /\ result' = [result EXCEPT ![t] = "false"]
            /\ UNCHANGED <<mpc, shared_, count_>>
       ELSE IF count_.shared = 0
       THEN /\ shared_' = t
            /\ mpc' = [mpc EXCEPT ![t] = "try_lock_shared_until_global"]
            /\ UNCHANGED <<result, count_>>
       ELSE /\ count_' = [count_ EXCEPT !.shared = count_.shared + 1]
            /\ mpc' = [mpc EXCEPT ![t] = "reading"]
            /\ result' = [result EXCEPT ![t] = "true"]
            /\ UNCHANGED shared_
  /\ UNCHANGED <<ncalls, global_, cond_>>
  /\ RwFrame

\* try_lock_shared_until(): `global_.wait_until(timeout_time)` of the first
\* reader
SmShared_try_lock_shared_until_global(t) ==
  /\ mpc[t] = "try_lock_shared_until_global"
  /\ IF GlobalFree
       THEN /\ global_' = global_ - 1
            /\ count_' = [count_ EXCEPT !.shared = 1]
            /\ mpc' = [mpc EXCEPT ![t] = "reading"]
            /\ result' = [result EXCEPT ![t] = "true"]
       ELSE /\ mpc' = [mpc EXCEPT ![t] = "idle"]
            /\ result' = [result EXCEPT ![t] = "false"]
            /\ UNCHANGED <<global_, count_>>
  /\ shared_' = 0
  /\ UNCHANGED <<ncalls, cond_>>
  /\ RwFrame

\* unlock_shared()
SmShared_unlock_shared(t) ==
  /\ mpc[t] = "reading"
  /\ shared_ = 0
  /\ count_' = [count_ EXCEPT !.shared = count_.shared - 1]
  /\ global_' = IF LastReader(count_.shared - 1) THEN global_ + 1 ELSE global_
  /\ mpc' = [mpc EXCEPT ![t] = "idle"]
  /\ UNCHANGED <<result, ncalls, shared_, cond_>>
  /\ RwFrame

\* lock(): `global_.wait()`
SmShared_lock(t) ==
  /\ mpc[t] = "idle"
  /\ GlobalFree
  /\ global_' = global_ - 1
  /\ mpc' = [mpc EXCEPT ![t] = "writing"]
  /\ UNCHANGED <<result, ncalls, shared_, count_, cond_>>
  /\ RwFrame

\* try_lock(): `return global_.try_wait()`
SmShared_try_lock(t) ==
  /\ mpc[t] = "idle"
  /\ IF GlobalFree
       THEN /\ global_' = global_ - 1
            /\ mpc' = [mpc EXCEPT ![t] = "writing"]
            /\ result' = [result EXCEPT ![t] = "true"]
       ELSE /\ result' = [result EXCEPT ![t] = "false"]
            /\ UNCHANGED <<mpc, global_>>
  /\ UNCHANGED <<ncalls, shared_, count_, cond_>>
  /\ RwFrame

\* try_lock_until(): `return global_.wait_until(timeout_time)`, which
\* returns false when the time runs out with global_ still taken
SmShared_try_lock_until(t) ==
  /\ mpc[t] = "idle"
  /\ IF GlobalFree
       THEN /\ global_' = global_ - 1
            /\ mpc' = [mpc EXCEPT ![t] = "writing"]
            /\ result' = [result EXCEPT ![t] = "true"]
       ELSE /\ result' = [result EXCEPT ![t] = "false"]
            /\ UNCHANGED <<mpc, global_>>
  /\ UNCHANGED <<ncalls, shared_, count_, cond_>>
  /\ RwFrame

\* unlock(): `global_.notify()`
SmShared_unlock(t) ==
  /\ mpc[t] = "writing"
  /\ global_' = global_ + 1
  /\ mpc' = [mpc EXCEPT ![t] = "idle"]
  /\ UNCHANGED <<result, ncalls, shared_, count_, cond_>>
  /\ RwFrame

InitShared == CbInit /\ MutexInit /\ FifoInit /\ ExtInit /\ impl = "process"

NextShared ==
  \E t \in Threads :
    \/ SmShared_lock_shared(t)
    \/ SmShared_lock_shared_global(t)
    \/ SmShared_try_lock_shared(t)
    \/ SmShared_try_lock_shared_until(t)
    \/ SmShared_try_lock_shared_until_global(t)
    \/ SmShared_unlock_shared(t)
    \/ SmShared_lock(t)
    \/ SmShared_try_lock(t)
    \/ SmShared_try_lock_until(t)
    \/ SmShared_unlock(t)

SpecShared == InitShared /\ [][NextShared]_vars

\* C8: in the read-priority shared mutex no thread is in its shared critical
\* section while another is in its exclusive critical section, and at most
\* one thread is in the exclusive critical section.
C8_SharedMutualExclusion ==
  /\ ~(Readers # {} /\ Writers # {})
  /\ Cardinality(Writers) <= 1

\* C8 witness: a writer is in its critical section while a first reader,
\* holding shared_, is kept waiting for global_.
C8_Witness ==
  /\ Writers # {}
  /\ \E t \in Threads : mpc[t] = "lock_shared_global"


(***************************************************************************)
(* shared_mutex_exclusive: write priority.  cond_ is a gate that every     *)
(* shared acquisition passes first; a pass is a step that finds the gate   *)
(* open.  The sections under exclusive_ lie inside one step: exclusive_    *)
(* is never held across a blocking operation.                              *)
(***************************************************************************)
\* lock_shared(): `cond_.wait()`
SmExclusive_lock_shared(t) ==
  /\ mpc[t] = "idle"
  /\ cond_
  /\ mpc' = [mpc EXCEPT ![t] = "lock_shared_entry"]
  /\ UNCHANGED <<result, ncalls, shared_, global_, count_, cond_>>
  /\ RwFrame

\* lock_shared(): lock shared_ and count the reader
SmExclusive_lock_shared_entry(t) ==
  /\ mpc[t] = "lock_shared_entry"
  /\ shared_ = 0
  /\ count_' = [count_ EXCEPT !.shared = count_.shared + 1]
  /\ IF FirstReader(count_.shared + 1)
       THEN /\ shared_' = t
            /\ mpc' = [mpc EXCEPT ![t] = "lock_shared_global"]
       ELSE /\ shared_' = 0
            /\ mpc' = [mpc EXCEPT ![t] = "reading"]
  /\ UNCHANGED <<result, ncalls, global_, cond_>>
  /\ RwFrame

\* lock_shared(): `global_.wait()` of the first reader
SmExclusive_lock_shared_global(t) ==
  /\ mpc[t] = "lock_shared_global"
  /\ GlobalFree
  /\ global_' = global_ - 1
  /\ shared_' = 0
  /\ mpc' = [mpc EXCEPT ![t] = "reading"]
  /\ UNCHANGED <<result, ncalls, count_, cond_>>
  /\ RwFrame

\* try_lock_shared(): `cond_.wait_for(std::chrono::milliseconds(0))`
SmExclusive_try_lock_shared(t) ==
  /\ mpc[t] = "idle"
  /\ IF cond_
       THEN /\ mpc' = [mpc EXCEPT ![t] = "try_lock_shared_entry"]
            /\ UNCHANGED result
       ELSE /\ result' = [result EXCEPT ![t] = "false"]
            /\ UNCHANGED mpc
  /\ UNCHANGED <<ncalls, shared_, global_, count_, cond_>>
  /\ RwFrame

\* try_lock_shared(): the rest, from `lock.try_lock()` on shared_
SmExclusive_try_lock_shared_entry(t) ==
  /\ mpc[t] = "try_lock_shared_entry"
  /\ IF shared_ # 0
       THEN /\ result' = [result EXCEPT ![t] = "false"]
            /\ mpc' = [mpc EXCEPT ![t] = "idle"]
            /\ UNCHANGED <<global_, count_>>
       ELSE IF count_.shared = 0
       THEN IF GlobalFree
              THEN /\ global_' = global_ - 1
                   /\ count_' = [count_ EXCEPT !.shared = 1]
                   /\ mpc' = [mpc EXCEPT ![t] = "reading"]
                   /\ result' = [result EXCEPT ![t] = "true"]
              ELSE /\ result' = [result EXCEPT ![t] = "false"]
                   /\ mpc' = [mpc EXCEPT ![t] = "idle"]
                   /\ UNCHANGED <<global_, count_>>
       ELSE /\ count_' = [count_ EXCEPT !.shared = count_.shared + 1]
            /\ mpc' = [mpc EXCEPT ![t] = "reading"]
            /\ result' = [result EXCEPT ![t] = "true"]
            /\ UNCHANGED global_
  /\ UNCHANGED <<ncalls, shared_, cond_>>
  /\ RwFrame

\* try_lock_shared_until(): `cond_.wait_until(timeout_time)`
SmExclusive_try_lock_shared_until(t) ==
  /\ mpc[t] = "idle"
  /\ IF cond_
       THEN /\ mpc' = [mpc EXCEPT ![t] = "try_lock_shared_until_entry"]
            /\ UNCHANGED result
       ELSE /\ result' = [result EXCEPT ![t] = "false"]
            /\ UNCHANGED mpc
  /\ UNCHANGED <<ncalls, shared_, global_, count_, cond_>>
  /\ RwFrame

\* try_lock_shared_until(): `lock.try_lock_until(timeout_time)` on shared_
\* and, with readers already in, the increment
SmExclusive_try_lock_shared_until_entry(t) ==
  /\ mpc[t] = "try_lock_shared_until_entry"
  /\ IF shared_ # 0
       THEN /\ result' = [result EXCEPT ![t] = "false"]
            /\ mpc' = [mpc EXCEPT ![t] = "idle"]
            /\ UNCHANGED <<shared_, count_>>
       ELSE IF count_.shared = 0
       THEN /\ shared_' = t
            /\ mpc' = [mpc EXCEPT ![t] = "try_lock_shared_until_global"]
            /\ UNCHANGED <<result, count_>>
       ELSE /\ count_' = [count_ EXCEPT !.shared = count_.shared + 1]
            /\ mpc' = [mpc EXCEPT ![t] = "reading"]
            /\ result' = [result EXCEPT ![t] = "true"]
            /\ UNCHANGED shared_
  /\ UNCHANGED <<ncalls, global_, cond_>>
  /\ RwFrame

\* try_lock_shared_until(): `global_.wait_until(timeout_time)` of the first
\* reader
SmExclusive_try_lock_shared_until_global(t) ==
  /\ mpc[t] = "try_lock_shared_until_global"
  /\ IF GlobalFree
       THEN /\ global_' = global_ - 1
            /\ count_' = [count_ EXCEPT !.shared = 1]
            /\ mpc' = [mpc EXCEPT ![t] = "reading"]
            /\ result' = [result EXCEPT ![t] = "true"]
       ELSE /\ mpc' = [mpc EXCEPT ![t] = "idle"]
            /\ result' = [result EXCEPT ![t] = "false"]
            /\ UNCHANGED <<global_, count_>>
  /\ shared_' = 0
  /\ UNCHANGED <<ncalls, cond_>>
  /\ RwFrame

\* unlock_shared()
SmExclusive_unlock_shared(t) ==
  /\ mpc[t] = "reading"
  /\ shared_ = 0
  /\ count_' = [count_ EXCEPT !.shared = count_.shared - 1]
  /\ global_' = IF LastReader(count_.shared - 1) THEN global_ + 1 ELSE global_
  /\ mpc' = [mpc EXCEPT ![t] = "idle"]
  /\ UNCHANGED <<result, ncalls, shared_, cond_>>
  /\ RwFrame

\* lock(): the block under shared_ and exclusive_; the first waiting writer
\* closes the gate with cond_.reset()
SmExclusive_lock(t) ==
  /\ mpc[t] = "idle"
  /\ ncalls < MaxCalls
  /\ shared_ = 0
  /\ ncalls' = ncalls + 1
  /\ count_' = [count_ EXCEPT !.exclusive = count_.exclusive + 1]
  /\ cond_' = IF count_.exclusive + 1 = 1 THEN FALSE ELSE cond_
  /\ mpc' = [mpc EXCEPT ![t] = "lock_global"]
  /\ UNCHANGED <<result, shared_, global_>>
  /\ RwFrame

\* lock(): `global_.wait()`
SmExclusive_lock_global(t) ==
  /\ mpc[t] = "lock_global"
  /\ GlobalFree
  /\ global_' = global_ - 1
  /\ mpc' = [mpc EXCEPT ![t] = "writing"]
  /\ UNCHANGED <<result, ncalls, shared_, count_, cond_>>
  /\ RwFrame

\* try_lock(): shared_ and global_ taken at once, `count_->exclusive = 1`,
\* cond_.reset()
SmExclusive_try_lock(t) ==
  /\ mpc[t] = "idle"
  /\ IF shared_ # 0 \/ ~GlobalFree
       THEN /\ result' = [result EXCEPT ![t] = "false"]
            /\ UNCHANGED <<mpc, global_, count_, cond_>>
       ELSE /\ global_' = global_ - 1
            /\ count_' = [count_ EXCEPT !.exclusive = 1]
            /\ cond_' = FALSE
            /\ mpc' = [mpc EXCEPT ![t] = "writing"]
            /\ result' = [result EXCEPT ![t] = "true"]
  /\ UNCHANGED <<ncalls, shared_>>
  /\ RwFrame

\* unlock(): `global_.notify()`
SmExclusive_unlock(t) ==
  /\ mpc[t] = "writing"
  /\ global_' = global_ + 1
  /\ mpc' = [mpc EXCEPT ![t] = "unlock_count"]
  /\ UNCHANGED <<result, ncalls, shared_, count_, cond_>>
  /\ RwFrame

\* unlock(): the block under shared_ and exclusive_; the last writer opens
\* the gate with cond_.notify()
SmExclusive_unlock_count(t) ==
  /\ mpc[t] = "unlock_count"
  /\ shared_ = 0
  /\ count_' = [count_ EXCEPT !.exclusive = count_.exclusive - 1]
  /\ cond_' = IF count_.exclusive - 1 = 0 THEN TRUE ELSE cond_
  /\ mpc' = [mpc EXCEPT ![t] = "idle"]
  /\ UNCHANGED <<result, ncalls, shared_, global_>>
  /\ RwFrame

InitExclusive == CbInit /\ MutexInit /\ FifoInit /\ ExtInit /\ impl = "process"

NextExclusive ==
  \E t \in Threads :
    \/ SmExclusive_lock_shared(t)
    \/ SmExclusive_lock_shared_entry(t)
    \/ SmExclusive_lock_shared_global(t)
    \/ SmExclusive_try_lock_shared(t)
    \/ SmExclusive_try_lock_shared_entry(t)
    \/ SmExclusive_try_lock_shared_until(t)
    \/ SmExclusive_try_lock_shared_until_entry(t)
    \/ SmExclusive_try_lock_shared_until_global(t)
    \/ SmExclusive_unlock_shared(t)
    \/ SmExclusive_lock(t)
    \/ SmExclusive_lock_global(t)
    \/ SmExclusive_try_lock(t)
    \/ SmExclusive_unlock(t)
    \/ SmExclusive_unlock_count(t)

SpecExclusive == InitExclusive /\ [][NextExclusive]_vars

\* C9: in the exclusive-priority shared mutex, used through lock, try_lock,
\* lock_shared, try_lock_shared, try_lock_shared_until and the unlocks, no
\* thread is in its shared critical section while another is in its
\* exclusive critical section, and at most one thread is in the exclusive
\* critical section.
C9_ExclusiveMutualExclusion ==
  /\ \A t, u \in Threads : ~(mpc[t] = "reading" /\ mpc[u] = "writing")
  /\ \A t, u \in Threads :
       (mpc[t] = "writing" /\ mpc[u] = "writing") => t = u

\* C9 witness: a writer is in its critical section, the gate is closed, and
\* a reader that passed the gate before is kept waiting for global_.
C9_Witness ==
  /\ Writers # {}
  /\ ~cond_
  /\ \E t \in Threads : mpc[t] = "lock_shared_global"

(***************************************************************************)
(* shared_mutex_exclusive::try_lock_until.  The deadline passes only while *)
(* the awaited object is unavailable.  The function ends with              *)
(* `return true` on both paths, and a caller that was told true goes on    *)
(* into its exclusive critical section and unlocks afterwards.             *)
(***************************************************************************)
\* try_lock_until(): `lock.try_lock_until(timeout_time)` on shared_ and the
\* block under exclusive_
SmExclusive_try_lock_until(t) ==
  /\ mpc[t] = "idle"
  /\ ncalls < MaxCalls
  /\ ncalls' = ncalls + 1
  /\ IF shared_ # 0
       THEN /\ result' = [result EXCEPT ![t] = "false"]
            /\ UNCHANGED <<mpc, count_, cond_>>
       ELSE /\ count_' = [count_ EXCEPT !.exclusive = count_.exclusive + 1]
            /\ cond_' = IF count_.exclusive + 1 = 1 THEN FALSE ELSE cond_
            /\ mpc' = [mpc EXCEPT ![t] = "try_lock_until_global"]
            /\ UNCHANGED result
  /\ UNCHANGED <<shared_, global_>>
  /\ RwFrame

\* try_lock_until(): `global_.wait_until(timeout_time)`; with the permit the
\* function returns true
SmExclusive_try_lock_until_global(t) ==
  /\ mpc[t] = "try_lock_until_global"
  /\ IF GlobalFree
       THEN /\ global_' = global_ - 1
            /\ mpc' = [mpc EXCEPT ![t] = "writing"]
            /\ result' = [result EXCEPT ![t] = "true"]
       ELSE /\ mpc' = [mpc EXCEPT ![t] = "try_lock_until_undo"]
            /\ UNCHANGED <<global_, result>>
  /\ UNCHANGED <<ncalls, shared_, count_, cond_>>
  /\ RwFrame

\* try_lock_until(): the block after a missed deadline, and `return true`
SmExclusive_try_lock_until_undo(t) ==
  /\ mpc[t] = "try_lock_until_undo"
  /\ count_' = [count_ EXCEPT !.exclusive = count_.exclusive - 1]
  /\ cond_' = IF count_.exclusive - 1 = 0 THEN TRUE ELSE cond_
  /\ result' = [result EXCEPT ![t] = "true"]
  /\ mpc' = [mpc EXCEPT ![t] = "writing"]
  /\ UNCHANGED <<ncalls, shared_, global_>>
  /\ RwFrame

NextExclusiveTimed ==
  \/ NextExclusive
  \/ \E t \in Threads :
       \/ SmExclusive_try_lock_until(t)
       \/ SmExclusive_try_lock_until_global(t)
       \/ SmExclusive_try_lock_until_undo(t)

SpecExclusiveTimed == InitExclusive /\ [][NextExclusiveTimed]_vars

\* C11: a try_lock_until() of the exclusive-priority shared mutex that did
\* not get the global permit before its deadline returns false and leaves
\* its caller outside the critical section, and a caller that was told true
\* holds exclusive access: no other thread is in a critical section with it.
C11_TimedLockResult ==
  /\ [][\A t \in Threads :
          (mpc[t] = "try_lock_until_undo" /\ mpc'[t] # "try_lock_until_undo")
            => (result'[t] = "false" /\ mpc'[t] = "idle")]_vars
  /\ [](\A t, u \in Threads :
          (mpc[t] = "writing" /\ t # u) => mpc[u] \notin {"reading", "writing"})


\* A writer that has registered and has not unlocked: queued for global_ or
\* in its exclusive critical section.
WriterPending(t) ==
  mpc[t] \in {"lock_global", "try_lock_until_global", "writing"}

\* C12: in the exclusive-priority shared mutex, while a writer that arrived
\* through lock or try_lock is queued or active the reader gate is closed,
\* so that no lock_shared() that starts then passes it; the gate is open
\* again only when the last such writer has unlocked.
C12_GateClosedWhileWriters ==
  \A t \in Threads : WriterPending(t) => ~cond_

(***************************************************************************)
(* shared_mutex_fair: batches of readers alternate with writers.  All of   *)
(* state_ is read and written under mutex_.  A thread that waits on econd_ *)
(* releases mutex_ and is parked in econd_; notify_all() empties econd_,   *)
(* and a thread that is no longer in econd_ locks mutex_ again and looks   *)
(* at its predicate.                                                       *)
(***************************************************************************)
FairFrame ==
  UNCHANGED <<cbVars, rwVars, ncalls, impl, fifoVars, extVars>>

\* a writer predicate that does not look at the readers of this batch
ExclusiveFreeOfWriters == state_.exclusive = 0

\* lock(), try_lock(), try_lock_until(): no writer is in and no reader of
\* this batch is in
ExclusiveFree ==
  state_.exclusive = 0 /\ state_.shared[state_.this_batch] = 0

\* a reader predicate that lets every batch through
BatchOpenAlways(t) == TRUE

\* lock_shared(), try_lock_shared_until(): `state_->this_batch == batch`
BatchOpen(t) == state_.this_batch = batch[t]

\* state_ with one more reader in batch b
IncShared(b) ==
  [state_ EXCEPT !.shared = [state_.shared EXCEPT ![b] = @ + 1]]

\* state_ as it was: a reader that leaves without being counted out
DecSharedKept(b) == state_

\* state_ with one reader fewer in batch b
DecShared(b) ==
  [state_ EXCEPT !.shared = [state_.shared EXCEPT ![b] = @ - 1]]

\* wait_until(lock, timeout_time, pred) once the wait on the condition has
\* ended, notified or out of time, and mutex_ is locked again with pred()
\* equal to p: "true" and "false" are returned, "again" waits once more.
\* The condition_variable of cpen333::process returns pred() after a
\* notification and loops after a timeout; the std one of cpen333::thread
\* loops after a notification and returns pred() after a timeout.
TimedWaitOutcome(i, notified, p) ==
  IF p THEN "true"
  ELSE IF i = "process"
         THEN (IF notified THEN "false" ELSE "again")
         ELSE (IF notified THEN "again" ELSE "false")

\* lock_shared(): lock mutex_
SmFair_lock_shared(t) ==
  /\ mpc[t] = "idle"
  /\ mutex_ = 0
  /\ mutex_' = t
  /\ mpc' = [mpc EXCEPT ![t] = "lock_shared_locked"]
  /\ UNCHANGED <<result, state_, econd_, batch>>
  /\ FairFrame

\* lock_shared(): pass with no writer in or waiting, else join the next
\* batch and wait on econd_
SmFair_lock_shared_locked(t) ==
  /\ mpc[t] = "lock_shared_locked"
  /\ IF state_.etotal = 0
       THEN /\ state_' = IncShared(state_.this_batch)
            /\ mpc' = [mpc EXCEPT ![t] = "reading"]
            /\ UNCHANGED <<econd_, batch>>
       ELSE /\ batch' = [batch EXCEPT ![t] = 1 - state_.this_batch]
            /\ state_' = IncShared(1 - state_.this_batch)
            /\ econd_' = econd_ \cup {t}
            /\ mpc' = [mpc EXCEPT ![t] = "lock_shared_wait"]
  /\ mutex_' = 0
  /\ UNCHANGED result
  /\ FairFrame

\* lock_shared(): econd_.wait(lock, pred) after a wake-up
SmFair_lock_shared_wait(t) ==
  /\ mpc[t] = "lock_shared_wait"
  /\ t \notin econd_
  /\ mutex_ = 0
  /\ IF BatchOpen(t)
       THEN /\ mpc' = [mpc EXCEPT ![t] = "reading"]
            /\ batch' = [batch EXCEPT ![t] = 0]
            /\ UNCHANGED econd_
       ELSE /\ econd_' = econd_ \cup {t}
            /\ UNCHANGED <<mpc, batch>>
  /\ UNCHANGED <<result, mutex_, state_>>
  /\ FairFrame

\* try_lock_shared_until(): `lock.try_lock_until(timeout_time)` on mutex_
SmFair_try_lock_shared_until(t) ==
  /\ mpc[t] = "idle"
  /\ IF mutex_ = 0
       THEN /\ mutex_' = t
            /\ mpc' = [mpc EXCEPT ![t] = "try_lock_shared_until_locked"]
            /\ UNCHANGED result
       ELSE /\ result' = [result EXCEPT ![t] = "false"]
            /\ UNCHANGED <<mutex_, mpc>>
  /\ UNCHANGED <<state_, econd_, batch>>
  /\ FairFrame

\* try_lock_shared_until(): pass with no writer in or waiting, else join
\* the next batch and wait on econd_
SmFair_try_lock_shared_until_locked(t) ==
  /\ mpc[t] = "try_lock_shared_until_locked"
  /\ IF state_.etotal = 0
       THEN /\ state_' = IncShared(state_.this_batch)
            /\ mpc' = [mpc EXCEPT ![t] = "reading"]
            /\ result' = [result EXCEPT ![t] = "true"]
            /\ UNCHANGED <<econd_, batch>>
       ELSE /\ batch' = [batch EXCEPT ![t] = 1 - state_.this_batch]
            /\ state_' = IncShared(1 - state_.this_batch)
            /\ econd_' = econd_ \cup {t}
            /\ mpc' = [mpc EXCEPT ![t] = "try_lock_shared_until_wait"]
            /\ UNCHANGED result
  /\ mutex_' = 0
  /\ FairFrame

\* try_lock_shared_until(): econd_.wait_until(lock, timeout_time, pred)
\* after a wake-up (t is no longer in econd_) or out of time (t still is)
SmFair_try_lock_shared_until_wait(t) ==
  /\ mpc[t] = "try_lock_shared_until_wait"
  /\ mutex_ = 0
  /\ LET out == TimedWaitOutcome(impl, t \notin econd_, BatchOpen(t))
     IN IF out = "true"
          THEN /\ mpc' = [mpc EXCEPT ![t] = "reading"]
               /\ result' = [result EXCEPT ![t] = "true"]
               /\ econd_' = econd_ \ {t}
               /\ batch' = [batch EXCEPT ![t] = 0]
               /\ UNCHANGED state_
          ELSE IF out = "false"
          THEN /\ state_' = DecShared(batch[t])
               /\ mpc' = [mpc EXCEPT ![t] = "idle"]
               /\ result' = [result EXCEPT ![t] = "false"]
               /\ econd_' = econd_ \ {t}
               /\ batch' = [batch EXCEPT ![t] = 0]
          ELSE /\ econd_' = econd_ \cup {t}
               /\ UNCHANGED <<mpc, result, state_, batch>>
  /\ UNCHANGED mutex_
  /\ FairFrame

\* unlock_shared()
SmFair_unlock_shared(t) ==
  /\ mpc[t] = "reading"
  /\ mutex_ = 0
  /\ state_' = DecShared(state_.this_batch)
  /\ econd_' = IF state_.shared[state_.this_batch] - 1 = 0 THEN {} ELSE econd_
  /\ mpc' = [mpc EXCEPT ![t] = "idle"]
  /\ UNCHANGED <<result, mutex_, batch>>
  /\ FairFrame

\* lock(): lock mutex_
SmFair_lock(t) ==
  /\ mpc[t] = "idle"
  /\ mutex_ = 0
  /\ mutex_' = t
  /\ mpc' = [mpc EXCEPT ![t] = "lock_locked"]
  /\ UNCHANGED <<result, state_, econd_, batch>>
  /\ FairFrame

\* lock(): `++(state_->etotal)`, then econd_.wait(lock, pred), which does
\* not wait when pred() holds already
SmFair_lock_locked(t) ==
  /\ mpc[t] = "lock_locked"
  /\ IF ExclusiveFree
       THEN /\ state_' = [state_ EXCEPT !.etotal = @ + 1, !.exclusive = 1]
            /\ mpc' = [mpc EXCEPT ![t] = "writing"]
            /\ UNCHANGED econd_
       ELSE /\ state_' = [state_ EXCEPT !.etotal = @ + 1]
            /\ econd_' = econd_ \cup {t}
            /\ mpc' = [mpc EXCEPT ![t] = "lock_wait"]
  /\ mutex_' = 0
  /\ UNCHANGED <<result, batch>>
  /\ FairFrame

\* lock(): econd_.wait(lock, pred) after a wake-up, then
\* `state_->exclusive = 1`
SmFair_lock_wait(t) ==
  /\ mpc[t] = "lock_wait"
  /\ t \notin econd_
  /\ mutex_ = 0
  /\ IF ExclusiveFree
       THEN /\ state_' = [state_ EXCEPT !.exclusive = 1]
            /\ mpc' = [mpc EXCEPT ![t] = "writing"]
            /\ UNCHANGED econd_
       ELSE /\ econd_' = econd_ \cup {t}
            /\ UNCHANGED <<mpc, state_>>
  /\ UNCHANGED <<result, mutex_, batch>>
  /\ FairFrame

\* try_lock()
SmFair_try_lock(t) ==
  /\ mpc[t] = "idle"
  /\ IF mutex_ # 0 \/ ~ExclusiveFree
       THEN /\ result' = [result EXCEPT ![t] = "false"]
            /\ UNCHANGED <<mpc, state_>>
       ELSE /\ state_' = [state_ EXCEPT !.etotal = @ + 1, !.exclusive = 1]
            /\ mpc' = [mpc EXCEPT ![t] = "writing"]
            /\ result' = [result EXCEPT ![t] = "true"]
  /\ UNCHANGED <<mutex_, econd_, batch>>
  /\ FairFrame

\* try_lock_until(): `lock.try_lock_until(timeout_time)` on mutex_
SmFair_try_lock_until(t) ==
  /\ mpc[t] = "idle"
  /\ IF mutex_ = 0
       THEN /\ mutex_' = t
            /\ mpc' = [mpc EXCEPT ![t] = "try_lock_until_locked"]
            /\ UNCHANGED result
       ELSE /\ result' = [result EXCEPT ![t] = "false"]
            /\ UNCHANGED <<mutex_, mpc>>
  /\ UNCHANGED <<state_, econd_, batch>>
  /\ FairFrame

\* try_lock_until(): `++(state_->etotal)`, then
\* econd_.wait_until(lock, timeout_time, pred), which does not wait when
\* pred() holds already
SmFair_try_lock_until_locked(t) ==
  /\ mpc[t] = "try_lock_until_locked"
  /\ IF ExclusiveFree
       THEN /\ state_' = [state_ EXCEPT !.etotal = @ + 1, !.exclusive = 1]
            /\ mpc' = [mpc EXCEPT ![t] = "writing"]
            /\ result' = [result EXCEPT ![t] = "true"]
            /\ UNCHANGED econd_
       ELSE /\ state_' = [state_ EXCEPT !.etotal = @ + 1]
            /\ econd_' = econd_ \cup {t}
            /\ mpc' = [mpc EXCEPT ![t] = "try_lock_until_wait"]
            /\ UNCHANGED result
  /\ mutex_' = 0
  /\ UNCHANGED batch
  /\ FairFrame

\* try_lock_until(): econd_.wait_until(lock, timeout_time, pred) after a
\* wake-up (t is no longer in econd_) or out of time (t still is)
SmFair_try_lock_until_wait(t) ==
  /\ mpc[t] = "try_lock_until_wait"
  /\ mutex_ = 0
  /\ LET out == TimedWaitOutcome(impl, t \notin econd_, ExclusiveFree)
     IN IF out = "true"
          THEN /\ state_' = [state_ EXCEPT !.exclusive = 1]
               /\ mpc' = [mpc EXCEPT ![t] = "writing"]
               /\ result' = [result EXCEPT ![t] = "true"]
               /\ econd_' = econd_ \ {t}
          ELSE IF out = "false"
          THEN /\ state_' = [state_ EXCEPT !.etotal = @ - 1]
               /\ mpc' = [mpc EXCEPT ![t] = "idle"]
               /\ result' = [result EXCEPT ![t] = "false"]
               /\ econd_' = econd_ \ {t}
          ELSE /\ econd_' = econd_ \cup {t}
               /\ UNCHANGED <<mpc, result, state_>>
  /\ UNCHANGED <<mutex_, batch>>
  /\ FairFrame

\* unlock()
SmFair_unlock(t) ==
  /\ mpc[t] = "writing"
  /\ mutex_ = 0
  /\ state_' = [state_ EXCEPT !.exclusive = 0,
                              !.etotal = @ - 1,
                              !.this_batch = 1 - @]
  /\ econd_' = {}
  /\ mpc' = [mpc EXCEPT ![t] = "idle"]
  /\ UNCHANGED <<result, mutex_, batch>>
  /\ FairFrame

\* A wait on the condition ends though no notify was meant for it: the
\* condition_variable may wake a waiter at any time, which is why every
\* wait sits in a loop over its predicate.
SmFair_spurious(t) ==
  /\ t \in econd_
  /\ econd_' = econd_ \ {t}
  /\ UNCHANGED <<mpc, result, mutex_, state_, batch>>
  /\ FairFrame

InitFair == CbInit /\ MutexInit /\ FifoInit /\ ExtInit /\ impl \in Impls

NextFair ==
  \E t \in Threads :
    \/ SmFair_lock_shared(t)
    \/ SmFair_lock_shared_locked(t)
    \/ SmFair_lock_shared_wait(t)
    \/ SmFair_try_lock_shared_until(t)
    \/ SmFair_try_lock_shared_until_locked(t)
    \/ SmFair_try_lock_shared_until_wait(t)
    \/ SmFair_unlock_shared(t)
    \/ SmFair_lock(t)
    \/ SmFair_lock_locked(t)
    \/ SmFair_lock_wait(t)
    \/ SmFair_try_lock(t)
    \/ SmFair_try_lock_until(t)
    \/ SmFair_try_lock_until_locked(t)
    \/ SmFair_try_lock_until_wait(t)
    \/ SmFair_unlock(t)
    \/ SmFair_spurious(t)

SpecFair == InitFair /\ [][NextFair]_vars

\* C10: in the fair shared mutex, used through lock, try_lock,
\* try_lock_until, lock_shared, try_lock_shared_until and the unlocks, every
\* reader in its critical section excludes every writer in its critical
\* section, and two writers are never in together.
C10_FairMutualExclusion ==
  /\ Readers # {} => Writers = {}
  /\ Cardinality(Writers) < 2

\* C10 witness: a writer that a try_ call let in is in its critical section
\* while a reader of the next batch is parked on econd_.
C10_Witness ==
  \E t, u \in Threads :
    /\ mpc[t] = "writing" /\ result[t] = "true"
    /\ mpc[u] \in {"lock_shared_wait", "try_lock_shared_until_wait"}
    /\ state_.shared[1 - state_.this_batch] > 0

(***************************************************************************)
(* shared_mutex_fair under fair scheduling, used through lock(),           *)
(* lock_shared() and the unlocks.  A call is started at will.  A thread    *)
(* that holds mutex_ goes on; a holder of the lock unlocks in the end; a   *)
(* thread whose wait on econd_ has ended and whose predicate holds again   *)
(* and again gets mutex_ in one of those moments.                          *)
(***************************************************************************)
NextFairLive ==
  \E t \in Threads :
    \/ SmFair_lock_shared(t)
    \/ SmFair_lock_shared_locked(t)
    \/ SmFair_lock_shared_wait(t)
    \/ SmFair_unlock_shared(t)
    \/ SmFair_lock(t)
    \/ SmFair_lock_locked(t)
    \/ SmFair_lock_wait(t)
    \/ SmFair_unlock(t)
    \/ SmFair_spurious(t)

FairScheduling ==
  \A t \in Threads :
    /\ WF_vars(SmFair_lock_shared_locked(t))
    /\ WF_vars(SmFair_lock_locked(t))
    /\ SF_vars(SmFair_unlock_shared(t))
    /\ SF_vars(SmFair_unlock(t))
    /\ SF_vars(SmFair_lock_shared_wait(t) /\ mpc'[t] = "reading")
    /\ SF_vars(SmFair_lock_wait(t) /\ mpc'[t] = "writing")

SpecFairLive == InitFair /\ [][NextFairLive]_vars /\ FairScheduling

QueuedAtUnlock(t) == mpc[t] = "lock_shared_wait" /\ BatchOpen(t)

\* C14: in the fair shared mutex, from the unlock() of a writer that found
\* readers queued in lock_shared() until every one of them has been let in
\* and has called unlock_shared(), no writer is in its exclusive critical
\* section: a second writer never follows directly.
C14_ReaderBatchBeforeNextWriter ==
  \A t \in Threads :
    (QueuedAtUnlock(t) \/ mpc[t] = "reading")
      => (Writers = {} /\ state_.exclusive = 0)

\* C14 witness: a writer has just unlocked and has called lock() again; it
\* is blocked while a reader of the batch it released is in and another one
\* is still on its way out of the wait.
C14_Witness ==
  \E t, u, v \in Threads :
    /\ QueuedAtUnlock(t)
    /\ mpc[u] = "reading"
    /\ mpc[v] = "lock_wait"
    /\ state_.shared[state_.this_batch] = 2

\* A reader is parked in lock_shared() for a batch that is not open, no
\* writer is in, queued or on its way (etotal is 0 and every other thread
\* is outside any call): this_batch changes in unlock() only, so the reader
\* stays where it is until some later writer has locked and unlocked.
Stranded(t) ==
  /\ mpc[t] = "lock_shared_wait"
  /\ ~BatchOpen(t)
  /\ state_.etotal = 0
  /\ \A u \in Threads \ {t} : mpc[u] = "idle"

\* C15: in the fair shared mutex, a try_lock_until() or
\* try_lock_shared_until() that returned false leaves no thread blocked for
\* good: no reader is left waiting in lock_shared() for a flip of the batch
\* that only a writer still to come could bring.
C15_TimeoutStrandsNoOne ==
  \A t \in Threads : ~Stranded(t)

(***************************************************************************)
(* shared_mutex_shared with the blocked writer made visible: lock() is one *)
(* `global_.wait()`, and a thread that has called it and has not got the   *)
(* permit yet is at "lock_global".                                         *)
(***************************************************************************)
\* lock(): the call is made
SmShared_lock_call(t) ==
  /\ mpc[t] = "idle"
  /\ mpc' = [mpc EXCEPT ![t] = "lock_global"]
  /\ UNCHANGED <<result, ncalls, shared_, global_, count_, cond_>>
  /\ RwFrame

\* lock(): `global_.wait()` returns with the permit
SmShared_lock_global(t) ==
  /\ mpc[t] = "lock_global"
  /\ GlobalFree
  /\ global_' = global_ - 1
  /\ mpc' = [mpc EXCEPT ![t] = "writing"]
  /\ UNCHANGED <<result, ncalls, shared_, count_, cond_>>
  /\ RwFrame

NextSharedBlocking ==
  \E t \in Threads :
    \/ SmShared_lock_shared(t)
    \/ SmShared_lock_shared_global(t)
    \/ SmShared_try_lock_shared(t)
    \/ SmShared_try_lock_shared_until(t)
    \/ SmShared_try_lock_shared_until_global(t)
    \/ SmShared_unlock_shared(t)
    \/ SmShared_try_lock(t)
    \/ SmShared_try_lock_until(t)
    \/ SmShared_lock_call(t)
    \/ SmShared_lock_global(t)
    \/ SmShared_unlock(t)

SpecSharedBlocking == InitShared /\ [][NextSharedBlocking]_vars

\* C16: in the read-priority shared mutex readers can overlap for ever and
\* keep a writer out.  Whenever a writer is blocked in lock() and a reader
\* is in: the writer cannot get global_; a thread outside any call can
\* enter lock_shared() at once when shared_ is free, without waiting for
\* the writer; and with two readers in, either can leave with the reader
\* count staying above 0 and global_ staying taken.  Readers that take
\* turns this way make an infinite run in which every reader acts again
\* and again and the step of the writer is never enabled.
C16_ReadersCanStarveWriter ==
  \A w \in Threads :
    (mpc[w] = "lock_global" /\ Readers # {}) =>
      /\ ~ENABLED SmShared_lock_global(w)
      /\ \A r \in Threads :
           (mpc[r] = "idle" /\ shared_ = 0) =>
             ENABLED (SmShared_lock_shared(r) /\ mpc'[r] = "reading")
      /\ \A r \in Readers :
           Cardinality(Readers) >= 2 =>
             ENABLED (SmShared_unlock_shared(r)
                        /\ count_'.shared >= 1 /\ global_' = 0)

\* C16 witness: a writer is blocked in lock() while two readers overlap.
C16_Witness ==
  \E w \in Threads :
    /\ mpc[w] = "lock_global"
    /\ Cardinality(Readers) = 2
    /\ count_.shared = 2
    /\ global_ = 0

(***************************************************************************)
(* shared_mutex_fair::try_lock_shared beside the untimed operations.  A    *)
(* caller that was told true is a reader from then on and calls            *)
(* unlock_shared() later; state_->shared[] is a size_t pair, shown by its  *)
(* signed representative when a decrement takes it below 0.                *)
(***************************************************************************)
\* try_lock_shared()
SmFair_try_lock_shared(t) ==
  /\ mpc[t] = "idle"
  /\ ncalls < MaxCalls
  /\ ncalls' = ncalls + 1
  /\ IF mutex_ # 0 \/ state_.exclusive > 0
       THEN /\ result' = [result EXCEPT ![t] = "false"]
            /\ UNCHANGED mpc
       ELSE /\ result' = [result EXCEPT ![t] = "true"]
            /\ mpc' = [mpc EXCEPT ![t] = "reading"]
  /\ UNCHANGED <<mutex_, state_, econd_, batch>>
  /\ UNCHANGED <<cbVars, rwVars, impl, fifoVars, extVars>>

NextFairTry ==
  \/ NextFairLive
  \/ \E t \in Threads :
       \/ SmFair_try_lock(t)
       \/ SmFair_try_lock_shared(t)

SpecFairTry == InitFair /\ [][NextFairTry]_vars

\* C17: a try_lock_shared() of the fair shared mutex that returns true
\* leaves the lock as a lock_shared() that passes does, with the caller
\* counted among the readers of this batch, and one that returns false
\* leaves the lock as it was; so a reader that got in this way keeps every
\* writer out.
C17_TryLockSharedRegisters ==
  /\ [][\A t \in Threads :
          SmFair_try_lock_shared(t) =>
            IF mpc'[t] = "reading"
              THEN state_' = IncShared(state_.this_batch)
              ELSE state_' = state_]_vars
  /\ [](Readers # {} => Writers = {})

(***************************************************************************)
(* fifo: a circular buffer of FifoSize slots.  psem_ counts the free       *)
(* slots and csem_ the items that may be taken.  push_item, pop_item and   *)
(* peek_item run under pmutex_ or cmutex_ from their first line to their   *)
(* last, so each is one step.  The try_ form of a call differs from the    *)
(* blocking form in returning false where the other waits.  The values     *)
(* pushed are 1, 2, 3, ... in the order in which the pushes get past       *)
(* psem_.                                                                  *)
(***************************************************************************)
FifoFrame == UNCHANGED <<cbVars, mutexVars, extVars>>

\* a psem_ that lets a push through with no permit left
SlotFreeAtZero == psem_ >= 0

\* psem_.wait(), psem_.try_wait(): a permit is there
SlotFree == psem_ > 0

\* a consumer let through with no permit
ItemReadyAtZero == csem_ >= 0

\* csem_.wait(), csem_.try_wait(): a permit is there
ItemReady == csem_ > 0

\* an index that goes back to 0 one slot early
NextIndexEarly(i) == IF i + 2 >= FifoSize THEN 0 ELSE i + 1

\* push_item, pop_item: the index after i, `if (++idx == size) idx = 0`
NextIndex(i) == IF i + 1 = FifoSize THEN 0 ELSE i + 1

\* pushes that are past psem_ and have not stored their item yet
PushesInFlight == Cardinality({t \in Threads : fpc[t] = "push_item"})

\* items stored and not yet taken out
Stored == Len(pushed) - Len(popped)

\* push(val) and try_push(val) up to psem_
Fifo_push(t, try) ==
  /\ fpc[t] = "idle"
  /\ Len(pushed) + PushesInFlight < MaxPush
  /\ IF SlotFree
       THEN /\ psem_' = psem_ - 1
            /\ fval' = [fval EXCEPT ![t] = Len(pushed) + PushesInFlight + 1]
            /\ fpc' = [fpc EXCEPT ![t] = "push_item"]
            /\ fret' = [fret EXCEPT ![t] = IF try THEN "true" ELSE "none"]
       ELSE /\ try
            /\ fret' = [fret EXCEPT ![t] = "false"]
            /\ UNCHANGED <<psem_, fval, fpc>>
  /\ UNCHANGED <<fout, csem_, info_, data_, pushed, popped>>
  /\ FifoFrame

\* push_item(val)
Fifo_push_item(t) ==
  /\ fpc[t] = "push_item"
  /\ data_' = [data_ EXCEPT ![info_.pidx] = fval[t]]
  /\ info_' = [info_ EXCEPT !.pidx = NextIndex(info_.pidx)]
  /\ pushed' = Append(pushed, fval[t])
  /\ fpc' = [fpc EXCEPT ![t] = "push_notify"]
  /\ UNCHANGED <<fval, fout, fret, psem_, csem_, popped>>
  /\ FifoFrame

\* push(val), try_push(val): `csem_.notify()`
Fifo_push_notify(t) ==
  /\ fpc[t] = "push_notify"
  /\ csem_' = csem_ + 1
  /\ fpc' = [fpc EXCEPT ![t] = "idle"]
  /\ UNCHANGED <<fval, fout, fret, psem_, info_, data_, pushed, popped>>
  /\ FifoFrame

\* pop(out) and try_pop(out) up to csem_
Fifo_pop(t, try) ==
  /\ fpc[t] = "idle"
  /\ IF ItemReady
       THEN /\ csem_' = csem_ - 1
            /\ fpc' = [fpc EXCEPT ![t] = "pop_item"]
            /\ fret' = [fret EXCEPT ![t] = IF try THEN "true" ELSE "none"]
       ELSE /\ try
            /\ fret' = [fret EXCEPT ![t] = "false"]
            /\ UNCHANGED <<csem_, fpc>>
  /\ UNCHANGED <<fval, fout, psem_, info_, data_, pushed, popped>>
  /\ FifoFrame

\* pop_item(out)
Fifo_pop_item(t) ==
  /\ fpc[t] = "pop_item"
  /\ fout' = [fout EXCEPT ![t] = data_[info_.cidx]]
  /\ popped' = Append(popped, data_[info_.cidx])
  /\ info_' = [info_ EXCEPT !.cidx = NextIndex(info_.cidx)]
  /\ fpc' = [fpc EXCEPT ![t] = "pop_notify"]
  /\ UNCHANGED <<fval, fret, psem_, csem_, data_, pushed>>
  /\ FifoFrame

\* pop(out), try_pop(out): `psem_.notify()`
Fifo_pop_notify(t) ==
  /\ fpc[t] = "pop_notify"
  /\ psem_' = psem_ + 1
  /\ fpc' = [fpc EXCEPT ![t] = "idle"]
  /\ UNCHANGED <<fval, fout, fret, csem_, info_, data_, pushed, popped>>
  /\ FifoFrame

\* peek(out) and try_peek(out) up to csem_
Fifo_peek(t, try) ==
  /\ fpc[t] = "idle"
  /\ IF ItemReady
       THEN /\ csem_' = csem_ - 1
            /\ fpc' = [fpc EXCEPT ![t] = "peek_item"]
            /\ fret' = [fret EXCEPT ![t] = IF try THEN "true" ELSE "none"]
       ELSE /\ try
            /\ fret' = [fret EXCEPT ![t] = "false"]
            /\ UNCHANGED <<csem_, fpc>>
  /\ UNCHANGED <<fval, fout, psem_, info_, data_, pushed, popped>>
  /\ FifoFrame

\* peek_item(out), after which peek and try_peek return
Fifo_peek_item(t) ==
  /\ fpc[t] = "peek_item"
  /\ fout' = [fout EXCEPT ![t] = data_[info_.cidx]]
  /\ fpc' = [fpc EXCEPT ![t] = "idle"]
  /\ UNCHANGED <<fval, fret, psem_, csem_, info_, data_, pushed, popped>>
  /\ FifoFrame

InitFifo == CbInit /\ MutexInit /\ FifoInit /\ ExtInit /\ impl = "process"

\* the threads that use the fifo: each may push, pop and peek
FifoThreads == {1, 2}

NextFifo ==
  \E t \in FifoThreads :
    \/ \E try \in BOOLEAN : Fifo_push(t, try)
    \/ Fifo_push_item(t)
    \/ Fifo_push_notify(t)
    \/ \E try \in BOOLEAN : Fifo_pop(t, try)
    \/ Fifo_pop_item(t)
    \/ Fifo_pop_notify(t)
    \/ \E try \in BOOLEAN : Fifo_peek(t, try)
    \/ Fifo_peek_item(t)

SpecFifo == InitFifo /\ [][NextFifo]_vars

\* C18: the values that pop and try_pop have returned are, in the order
\* returned, the first of the values pushed in the order pushed: with one
\* producer and one consumer, and with more of either, also when the
\* indices have gone round the buffer.
C18_FifoOrder ==
  /\ Len(popped) <= Len(pushed)
  /\ \A i \in 1 .. Len(popped) : popped[i] = pushed[i]

\* C18 witness: thread 1 alone has pushed and thread 2 alone has popped or
\* peeked; more values than the buffer has slots went through it, so the
\* indices have wrapped, and the values came out as 1, 2, 3, ...
C18_Witness ==
  /\ Len(popped) > FifoSize
  /\ popped = [i \in 1 .. Len(popped) |-> i]
  /\ fval[2] = 0
  /\ fout[1] = 0

\* pushes and pops that have returned to their callers
PushesCompleted ==
  Len(pushed) - Cardinality({t \in Threads : fpc[t] = "push_notify"})

PopsCompleted ==
  Len(popped) - Cardinality({t \in Threads : fpc[t] = "pop_notify"})

\* the slots that hold an item stored and not yet taken out
UnreadSlots == {(info_.cidx + j) % FifoSize : j \in 0 .. Stored - 1}

\* C19: the fifo never holds more than FifoSize items, counted from store
\* to take-out or from the return of push to the return of pop; a push is
\* past psem_ only while a slot is free for it, so with the buffer full no
\* push returns before a pop; and push_item never writes to a slot whose
\* item has not been taken out.
C19_FifoCapacity ==
  /\ [](/\ Stored >= 0
        /\ Stored + PushesInFlight <= FifoSize
        /\ PushesCompleted - PopsCompleted <= FifoSize)
  /\ [][\A t \in Threads :
          Fifo_push_item(t) => info_.pidx \notin UnreadSlots]_vars

\* C19 witness: the buffer is full after a pop and the pushes have gone
\* round it; every push that began has returned and psem_ is 0, so that
\* the next push waits.
C19_Witness ==
  /\ Stored = FifoSize
  /\ PopsCompleted >= 1
  /\ PushesCompleted = FifoSize + PopsCompleted
  /\ psem_ = 0

\* C20: peek and try_peek take nothing out of the fifo: with no call in
\* progress every item stored can be popped without blocking, whatever
\* number of peeks went before, so csem_ equals the number of items.
C20_PeekLeavesItems ==
  (\A t \in Threads : fpc[t] = "idle") => csem_ = Stored

\* pops that have taken their item and have not yet given the slot back
PopsUnreleased == Cardinality({t \in Threads : fpc[t] = "pop_notify"})

\* C21: a try_push or timed push that returns false found no free slot and
\* a try_pop or timed pop that returns false found no item; either leaves
\* both indices, the data, both semaphore counts and the stored items as
\* they were.  So psem_ always counts exactly the slots that are neither
\* stored, reserved nor on their way back, and a push goes through as soon
\* as a pop has returned.
C21_RefusalLeavesNoResidue ==
  /\ [][\A t \in Threads :
          /\ (Fifo_push(t, TRUE) /\ fret'[t] = "false") =>
               (psem_ = 0 /\ UNCHANGED <<psem_, csem_, info_, data_, pushed,
                                         popped>>)
          /\ (Fifo_pop(t, TRUE) /\ fret'[t] = "false") =>
               (csem_ = 0 /\ UNCHANGED <<psem_, csem_, info_, data_, pushed,
                                         popped>>)]_vars
  /\ [](psem_ + Stored + PushesInFlight + PopsUnreleased = FifoSize)

\* C21 witness: the buffer is full with no call in progress, a thread that
\* has stored nothing and taken nothing has been refused, and a pop has gone
\* before.
C21_Witness ==
  /\ \A t \in Threads : fpc[t] = "idle"
  /\ Stored = FifoSize
  /\ Len(popped) >= 1
  /\ \E t \in FifoThreads : fret[t] = "false" /\ fval[t] = 0 /\ fout[t] = 0

(***************************************************************************)
(* rendezvous.  cpen333::process counts arrivals down in shared_->count    *)
(* and lets the last one post size - 1 permits on semaphore_, for which    *)
(* the others wait with mutex_ released.  cpen333::thread counts down in   *)
(* countdown_, has the earlier arrivals wait on cv_ for countdown_ == 0,   *)
(* and counts the leavers up in countup_, the last of which sets           *)
(* countdown_ back.  All of wait() up to the blocking call, and all of it  *)
(* after cv_.wait, runs under mutex_ and is one step.                      *)
(***************************************************************************)
RvFrame ==
  UNCHANGED <<cbVars, mutexVars, fifoVars, latchVars, half, fowner>>

\* wait() calls that arrive in one run
MaxArrive == 7

\* a test for the last arrival that is met one arrival early
IsLastEarly(n) == n <= 1

\* wait() of cpen333::process: `--(shared_->count) == 0`
IsLast(n) == n = 0

\* the round a call belongs to, by its place in the order of arrival
RoundOf(j) == (j + RendezvousSize - 1) \div RendezvousSize

\* wait() of cpen333::thread from `++countup_` to the end
RvLeave(c) ==
  IF rcountup + 1 = RendezvousSize
    THEN rcount' = RendezvousSize /\ rcountup' = 0
    ELSE rcount' = c /\ rcountup' = rcountup + 1

\* wait(): from the lock of mutex_ up to the return or the blocking call
Rv_wait(t) ==
  /\ rpc[t] = "idle"
  /\ rstarted < MaxArrive
  /\ rstarted' = rstarted + 1
  /\ rmine' = [rmine EXCEPT ![t] = rstarted + 1]
  /\ IF impl = "process"
       THEN /\ IF rcount = 0
                 THEN /\ rdone' = [rdone EXCEPT ![t] = rstarted + 1]
                      /\ UNCHANGED <<rpc, rcount, rsem>>
                 ELSE IF IsLast(rcount - 1)
                 THEN /\ rcount' = RendezvousSize
                      /\ rsem' = rsem + (RendezvousSize - 1)
                      /\ rdone' = [rdone EXCEPT ![t] = rstarted + 1]
                      /\ UNCHANGED rpc
                 ELSE /\ rcount' = rcount - 1
                      /\ rpc' = [rpc EXCEPT ![t] = "semaphore_wait"]
                      /\ UNCHANGED <<rsem, rdone>>
            /\ UNCHANGED <<rcountup, rparked>>
       ELSE /\ IF rcount <= 1
                 THEN /\ rparked' = {}
                      /\ RvLeave(0)
                      /\ rdone' = [rdone EXCEPT ![t] = rstarted + 1]
                      /\ UNCHANGED rpc
                 ELSE /\ rcount' = rcount - 1
                      /\ rparked' = rparked \cup {t}
                      /\ rpc' = [rpc EXCEPT ![t] = "cv_wait"]
                      /\ UNCHANGED <<rcountup, rdone>>
            /\ UNCHANGED rsem
  /\ RvFrame

\* wait() of cpen333::process: `semaphore_.wait()` and the return
Rv_semaphore_wait(t) ==
  /\ rpc[t] = "semaphore_wait"
  /\ rsem > 0
  /\ rsem' = rsem - 1
  /\ rdone' = [rdone EXCEPT ![t] = rmine[t]]
  /\ rpc' = [rpc EXCEPT ![t] = "idle"]
  /\ UNCHANGED <<rcount, rcountup, rparked, rstarted, rmine>>
  /\ RvFrame

\* wait() of cpen333::thread: cv_.wait(lock, pred) after a wake-up, and
\* with countdown_ == 0 the rest of the function
Rv_cv_wait(t) ==
  /\ rpc[t] = "cv_wait"
  /\ t \notin rparked
  /\ IF rcount = 0
       THEN /\ RvLeave(rcount)
            /\ rdone' = [rdone EXCEPT ![t] = rmine[t]]
            /\ rpc' = [rpc EXCEPT ![t] = "idle"]
            /\ UNCHANGED rparked
       ELSE /\ rparked' = rparked \cup {t}
            /\ UNCHANGED <<rpc, rcount, rcountup, rdone>>
  /\ UNCHANGED <<rsem, rstarted, rmine>>
  /\ RvFrame

\* a wait on cv_ that ends though no notify_all was meant for it
Rv_spurious(t) ==
  /\ t \in rparked
  /\ rparked' = rparked \ {t}
  /\ UNCHANGED <<rpc, rcount, rcountup, rsem, rstarted, rmine, rdone>>
  /\ RvFrame

InitRv == CbInit /\ MutexInit /\ FifoInit /\ ExtInit /\ impl \in Impls

NextRv ==
  \E t \in Threads :
    \/ Rv_wait(t)
    \/ Rv_semaphore_wait(t)
    \/ Rv_cv_wait(t)
    \/ Rv_spurious(t)

SpecRv == InitRv /\ [][NextRv]_vars

\* C22: in the first round of a rendezvous of size N, no wait() has
\* returned while fewer than N calls have arrived.
C22_NoReturnBeforeAllArrived ==
  rstarted < RendezvousSize => \A t \in Threads : rdone[t] = 0

\* C22 witness: each of the N threads has called wait() once, the last
\* arrival has returned and so has one of the earlier ones.
C22_Witness ==
  /\ rstarted = RendezvousSize
  /\ \E t, u \in Threads :
       /\ rdone[t] = RendezvousSize
       /\ rdone[u] \in 1 .. RendezvousSize - 1

\* A thread is blocked in wait() though the round of its call is complete,
\* and stays so unless some thread calls wait() again: every other thread
\* is outside wait(), and no permit is left on semaphore_, or countdown_ is
\* not 0.
RvStranded(t) ==
  /\ rpc[t] # "idle"
  /\ rstarted >= RendezvousSize * RoundOf(rmine[t])
  /\ \A u \in Threads \ {t} : rpc[u] = "idle"
  /\ IF impl = "process" THEN rsem = 0 ELSE rcount # 0

\* C23: the last arrival of a round returns without blocking, and once it
\* has arrived no earlier arrival of the round is left blocked in wait().
C23_RoundIsReleased ==
  /\ \A t \in Threads :
       rpc[t] # "idle" => rmine[t] % RendezvousSize # 0
  /\ \A t \in Threads : ~RvStranded(t)

\* C24: with the rendezvous used again and again, a wait() returns only
\* when every call of its round has arrived: the call that arrived as
\* number j returns no earlier than the arrival of call number N, 2N, ...
\* that completes the round of j.
C24_ReturnOnlyWithFullRound ==
  \A t \in Threads :
    rdone[t] > 0 => rstarted >= RendezvousSize * RoundOf(rdone[t])

(***************************************************************************)
(* condition: a gate that stays open once notified.  wait() locks mutex_   *)
(* and waits on the condition while the value is false; notify() sets the  *)
(* value under mutex_, releases it and notifies all; reset() clears the    *)
(* value under mutex_.  A waiter is registered with the condition before   *)
(* mutex_ is released, so every section under mutex_ is one step.          *)
(***************************************************************************)
LatchFrame ==
  UNCHANGED <<cbVars, mutexVars, fifoVars, rvVars, half, fowner>>

\* wait() calls made in one run
MaxLatchCalls == 4

OpenAlways == TRUE

\* the test of wait(): !storage_->value, or the predicate open_
Open == lvalue

\* wait(): lock mutex_; return if the value is set, else wait
Latch_wait(t) ==
  /\ lpc[t] = "idle"
  /\ lcalls < MaxLatchCalls
  /\ lcalls' = lcalls + 1
  /\ IF Open
       THEN UNCHANGED <<lpc, lparked>>
       ELSE /\ lpc' = [lpc EXCEPT ![t] = "wait"]
            /\ lparked' = lparked \cup {t}
  /\ UNCHANGED <<lvalue, llast>>
  /\ LatchFrame

\* wait(): woken, mutex_ locked again; test the value once more
Latch_wait_woken(t) ==
  /\ lpc[t] = "wait"
  /\ t \notin lparked
  /\ IF Open
       THEN /\ lpc' = [lpc EXCEPT ![t] = "idle"]
            /\ UNCHANGED lparked
       ELSE /\ lparked' = lparked \cup {t}
            /\ UNCHANGED lpc
  /\ UNCHANGED <<lvalue, lcalls, llast>>
  /\ LatchFrame

\* std::condition_variable may wake a waiter that nobody notified
Latch_spurious(t) ==
  /\ impl = "thread"
  /\ t \in lparked
  /\ lparked' = lparked \ {t}
  /\ UNCHANGED <<lpc, lvalue, lcalls, llast>>
  /\ LatchFrame

\* notify(): set the value under mutex_
Latch_notify(t) ==
  /\ lpc[t] = "idle"
  /\ lvalue' = TRUE
  /\ llast' = "notify"
  /\ lpc' = [lpc EXCEPT ![t] = "notify_all"]
  /\ UNCHANGED <<lparked, lcalls>>
  /\ LatchFrame

\* notify(): condition_base::notify(true), or cv_.notify_all()
Latch_notify_all(t) ==
  /\ lpc[t] = "notify_all"
  /\ lparked' = {}
  /\ lpc' = [lpc EXCEPT ![t] = "idle"]
  /\ UNCHANGED <<lvalue, lcalls, llast>>
  /\ LatchFrame

\* reset(): clear the value under mutex_
Latch_reset(t) ==
  /\ lpc[t] = "idle"
  /\ lvalue' = FALSE
  /\ llast' = "reset"
  /\ UNCHANGED <<lpc, lparked, lcalls>>
  /\ LatchFrame

InitLatch == CbInit /\ MutexInit /\ FifoInit /\ ExtInit /\ impl \in Impls

NextLatch ==
  \E t \in Threads :
    \/ Latch_wait(t)
    \/ Latch_wait_woken(t)
    \/ Latch_spurious(t)
    \/ Latch_notify(t)
    \/ Latch_notify_all(t)
    \/ Latch_reset(t)

SpecLatch == InitLatch /\ [][NextLatch]_vars

\* C25: wait() returns only with the value true; a wait() called after a
\* notify() and before the next reset() returns without waiting; a wait()
\* called after a reset() and before the next notify() waits, and a waiter
\* woken in that span waits again.
C25_LatchStaysOpen ==
  /\ [][\A t \in Threads :
          /\ ((Latch_wait(t) \/ Latch_wait_woken(t)) /\ lpc'[t] = "idle")
               => lvalue
          /\ (Latch_wait(t) /\ llast = "notify") => lpc'[t] = "idle"
          /\ ((Latch_wait(t) \/ Latch_wait_woken(t)) /\ llast = "reset")
               => (lpc'[t] = "wait" /\ t \in lparked')]_vars
  /\ [](\A t \in Threads : (lpc[t] = "wait" /\ lvalue) =>
          (t \notin lparked \/ \E u \in Threads : lpc[u] = "notify_all"))

\* a waiter parked after a reset() while another call has already passed
\* the open gate, and a notifier about to wake it
C25_Witness ==
  /\ llast = "notify"
  /\ lcalls >= 3
  /\ \E t, u \in Threads :
       /\ t # u
       /\ lpc[t] = "wait" /\ t \in lparked
       /\ lpc[u] = "notify_all"

\* C26: econd_.wait(lock, pred) in lock() and lock_shared() returns only in
\* a step that holds mutex_ and finds pred() true in state_; a waiter woken
\* while pred() is false is parked on econd_ again and has not returned.
C26_WaitReturnsWithPredicate ==
  [][\A t \in Threads :
       /\ ((SmFair_lock_locked(t) \/ SmFair_lock_wait(t))
             /\ mpc'[t] = "writing") =>
            (state_.exclusive = 0 /\ state_.shared[state_.this_batch] = 0)
       /\ (SmFair_lock_wait(t)
             /\ ~(state_.exclusive = 0
                    /\ state_.shared[state_.this_batch] = 0)) =>
            (mpc'[t] = "lock_wait" /\ t \in econd_' /\ state_' = state_)
       /\ (SmFair_lock_shared_wait(t) /\ mpc'[t] = "reading") =>
            state_.this_batch = batch[t]
       /\ (SmFair_lock_shared_wait(t) /\ state_.this_batch # batch[t]) =>
            (mpc'[t] = "lock_shared_wait" /\ t \in econd_')
       /\ (SmFair_lock_wait(t) \/ SmFair_lock_shared_wait(t)) =>
            (mutex_ = 0 /\ mutex_' = 0)]_vars

\* a writer woken while another writer is in, next to a reader woken while
\* its batch is still closed
C26_Witness ==
  \E t, u, v \in Threads :
    /\ mpc[t] = "lock_wait" /\ t \notin econd_
    /\ mpc[u] = "writing"
    /\ mpc[v] = "lock_shared_wait" /\ v \notin econd_
    /\ state_.this_batch # batch[v]
    /\ mutex_ = 0

\* C27: econd_.wait_until(lock, timeout_time, pred) in try_lock_until() and
\* try_lock_shared_until() ends at the deadline: a waiter that no
\* notification has reached, with pred() false, can return false as soon as
\* it gets mutex_; and no step returns true while pred() is false.
C27_TimedWaitEndsAtDeadline ==
  \A t \in Threads :
    /\ (mpc[t] = "try_lock_until_wait" /\ mutex_ = 0 /\ ~ExclusiveFree) =>
         /\ t \in econd_ =>
              ENABLED (SmFair_try_lock_until_wait(t) /\ mpc'[t] = "idle"
                         /\ result'[t] = "false")
         /\ ~ENABLED (SmFair_try_lock_until_wait(t) /\ mpc'[t] = "writing")
    /\ (mpc[t] = "try_lock_shared_until_wait" /\ mutex_ = 0
          /\ ~BatchOpen(t)) =>
         /\ t \in econd_ =>
              ENABLED (SmFair_try_lock_shared_until_wait(t)
                         /\ mpc'[t] = "idle" /\ result'[t] = "false")
         /\ ~ENABLED (SmFair_try_lock_shared_until_wait(t)
                        /\ mpc'[t] = "reading")

(***************************************************************************)
(* The condition on a narrow long.  wait() folds gone into blocked when    *)
(* gone reaches half the largest long, which no run of a few calls does.   *)
(* FoldAt stands for that value on a long narrow enough for the fold to    *)
(* be reached; the code is the same for every width.                       *)
(***************************************************************************)
FoldAt == 2

InitFold ==
  /\ CbInit /\ MutexInit /\ FifoInit /\ RvInit /\ LatchInit /\ OwnerInit
  /\ half = FoldAt
  /\ impl = "process"

SpecFold == InitFold /\ [][Next]_vars

NoGeneration ==
  /\ unblock = 0
  /\ block_queue = 0
  /\ \A u \in Threads :
       pc[u] \notin ({"account", "drain", "open_gate"} \cup InNotify)

\* C29: whenever no notification is in flight, blocked - gone is the number
\* of waiters that have registered and have neither been woken nor timed
\* out; and when no thread is inside wait(), blocked = gone.
C29_WaiterAccounting ==
  /\ NoGeneration =>
       blocked - gone = Cardinality({u \in Threads : pc[u] \in Registered})
  /\ NoWaiter => blocked = gone

\* C30: once every thread has returned from wait() and notify(), whatever
\* the interleaving of timed waits, untimed waits and notifies before, no
\* permit is left over: block_queue_ is at 0, block_lock_ at 1 and unblock
\* at 0.
C30_NoPermitLeaked ==
  (\A u \in Threads : pc[u] = "idle") =>
    (block_queue = 0 /\ block_lock = 1 /\ unblock = 0)

\* C31: the count of block_lock_ is 0 or 1; while unblock > 0 the gate is
\* closed and no waiter is in the entry section that does ++blocked; and
\* blocked is not written by another thread while a waiter is at ++blocked.
C31_AdmissionGate ==
  /\ [](block_lock \in {0, 1})
  /\ [](unblock > 0 =>
          (block_lock = 0
             /\ \A u \in Threads : pc[u] \notin {"inc_blocked", "release_gate"}))
  /\ [][\A u \in Threads :
          (pc[u] = "inc_blocked" /\ pc'[u] = "inc_blocked")
             => blocked' = blocked]_vars

\* a notify_all has closed the gate for two waiters, one of which is
\* accounting, while a third thread is held at the gate
C31_Witness ==
  /\ unblock = 2 /\ block_lock = 0
  /\ \E t, u \in Threads :
       /\ pc[t] = "block_lock"
       /\ pc[u] = "account"

(***************************************************************************)
(* The condition under fair scheduling.  A thread that can take a step of  *)
(* wait() or notify() takes it in the end; calls are started and timed     *)
(* waits run out only if the run has it so.  Semaphore and mutex waits     *)
(* are steps that are enabled when the permit is there.                    *)
(***************************************************************************)
\* wait() calls in one run under fair scheduling
MaxLiveWaits == 2

NextCbLive ==
  \E t \in Threads :
    \/ \E tm \in BOOLEAN : nwaits < MaxLiveWaits /\ CallWait(t, tm)
    \/ WaitBlockLock(t)
    \/ WaitIncBlocked(t)
    \/ WaitReleaseGate(t)
    \/ WaitUnlockExternal(t)
    \/ WaitQueue(t)
    \/ WaitQueueTimeout(t)
    \/ WaitAccount(t)
    \/ WaitDrain(t)
    \/ WaitOpenGate(t)
    \/ WaitRelock(t)
    \/ CallerUnlock(t)
    \/ \E bc \in BOOLEAN, lk \in BOOLEAN : CallNotify(t, bc, lk)
    \/ NotifyDecide(t)
    \/ NotifyCloseGate(t)
    \/ NotifyPost(t)
    \/ NotifyReturn(t)

CbStep(t) ==
  \/ WaitBlockLock(t) \/ WaitIncBlocked(t) \/ WaitReleaseGate(t)
  \/ WaitUnlockExternal(t) \/ WaitQueue(t) \/ WaitAccount(t)
  \/ WaitDrain(t) \/ WaitOpenGate(t) \/ WaitRelock(t) \/ CallerUnlock(t)
  \/ NotifyDecide(t) \/ NotifyCloseGate(t) \/ NotifyPost(t)
  \/ NotifyReturn(t)

CbScheduling == \A t \in Threads : WF_vars(CbStep(t))

SpecCbLive == Init /\ [][NextCbLive]_vars /\ CbScheduling

C33_GateOpenIffNoWriter ==
  (\A t \in Threads : mpc[t] \notin {"unlock_count", "try_lock_until_undo"})
    => (cond_ <=> \A t \in Threads : ~WriterPending(t))

\* C34: in the fair shared mutex a lock_shared() that finds etotal > 0 is
\* counted in the bucket that is not the current one and waits; it is
\* granted only with this_batch equal to its bucket, and this_batch changes
\* in a writer's unlock() only; a lock_shared() that finds etotal = 0 is
\* counted in the current bucket and granted in the same step.
C34_ReaderBatching ==
  [][/\ \A t \in Threads :
          /\ (SmFair_lock_shared_locked(t) /\ state_.etotal > 0) =>
               /\ mpc'[t] = "lock_shared_wait"
               /\ batch'[t] = 1 - state_.this_batch
               /\ state_'.shared[1 - state_.this_batch]
                    = state_.shared[1 - state_.this_batch] + 1
               /\ state_'.shared[state_.this_batch]
                    = state_.shared[state_.this_batch]
          /\ (SmFair_lock_shared_locked(t) /\ state_.etotal = 0) =>
               /\ mpc'[t] = "reading"
               /\ state_'.shared[state_.this_batch]
                    = state_.shared[state_.this_batch] + 1
          /\ (mpc[t] = "lock_shared_wait" /\ mpc'[t] # "lock_shared_wait") =>
               (mpc'[t] = "reading" /\ state_.this_batch = batch[t])
     /\ state_'.this_batch # state_.this_batch =>
          \E u \in Threads : SmFair_unlock(u)]_vars

\* a reader that queued behind a writer is woken with the batch flag on
\* its bucket, while a reader that came with no writer around is in
C34_Witness ==
  \E t, u \in Threads :
    /\ mpc[t] = "lock_shared_wait" /\ t \notin econd_
    /\ state_.this_batch = batch[t]
    /\ state_.shared[batch[t]] = 2
    /\ mpc[u] = "reading"
    /\ state_.etotal = 0

\* C35: the counts of psem_ and csem_ add up to the capacity, a permit
\* held by a push, pop or peek that has taken one and has not returned
\* being counted with them; with no call in progress psem_ + csem_ is the
\* capacity.
C35_PermitsAddUp ==
  psem_ + csem_
    + Cardinality({t \in Threads :
                     fpc[t] \in {"push_item", "push_notify", "pop_item",
                                 "pop_notify", "peek_item"}})
    = FifoSize

\* size(): the distance from cidx to pidx round the ring
Fifo_size ==
  IF info_.pidx < info_.cidx
    THEN FifoSize - info_.cidx + info_.pidx
    ELSE info_.pidx - info_.cidx

\* C36: whenever no push and no pop is in progress, the number of items
\* stored, from 0 up to the capacity, is (pidx - cidx) mod capacity, and
\* that is what size() returns.
C36_SizeIsItemCount ==
  (\A t \in Threads : fpc[t] \in {"idle", "peek_item"}) =>
    /\ Stored \in 0 .. FifoSize
    /\ Stored = (info_.pidx - info_.cidx) % FifoSize
    /\ Stored = Fifo_size

(***************************************************************************)
(* The fifo with several producers and several consumers: every thread     *)
(* calls push and pop.  The steps are those of the fifo above; push also   *)
(* notes which thread the value comes from.                                *)
(***************************************************************************)
\* push(val) up to psem_
Mp_push(t) ==
  /\ fpc[t] = "idle"
  /\ Len(pushed) + PushesInFlight < MaxPush
  /\ SlotFree
  /\ psem_' = psem_ - 1
  /\ fval' = [fval EXCEPT ![t] = Len(pushed) + PushesInFlight + 1]
  /\ fowner' = [fowner EXCEPT ![Len(pushed) + PushesInFlight + 1] = t]
  /\ fpc' = [fpc EXCEPT ![t] = "push_item"]
  /\ fret' = [fret EXCEPT ![t] = "none"]
  /\ UNCHANGED <<fout, csem_, info_, data_, pushed, popped>>
  /\ UNCHANGED <<cbVars, mutexVars, rvVars, latchVars, half>>

NextMp ==
  \E t \in Threads :
    \/ Mp_push(t)
    \/ Fifo_push_item(t)
    \/ Fifo_push_notify(t)
    \/ Fifo_pop(t, FALSE)
    \/ Fifo_pop_item(t)
    \/ Fifo_pop_notify(t)

SpecMp == InitFifo /\ [][NextMp]_vars

\* C37: with several threads in push and pop at once, no value is popped
\* twice, every value popped was pushed and came from a slot that had been
\* written, every value pushed and not yet popped is in its slot of the
\* buffer, and the values of one producer are popped in the order in which
\* it pushed them.
C37_EachItemOnceInProducerOrder ==
  /\ Len(popped) <= Len(pushed)
  /\ \A i, j \in 1 .. Len(popped) : i < j => popped[i] # popped[j]
  /\ \A i \in 1 .. Len(popped) :
       popped[i] # 0 /\ \E k \in 1 .. Len(pushed) : pushed[k] = popped[i]
  /\ \A k \in Len(popped) + 1 .. Len(pushed) :
       data_[(k - 1) % FifoSize] = pushed[k]
  /\ \A i, j \in 1 .. Len(popped) :
       (i < j /\ fowner[popped[i]] = fowner[popped[j]])
          => popped[i] < popped[j]

\* two producers had their pushes under way at once and stored them in the
\* other order; the values came out, two of them from the same producer
C37_Witness ==
  /\ Len(popped) >= 3
  /\ popped[1] > popped[2]
  /\ fowner[popped[2]] = fowner[popped[3]]
  /\ fowner[popped[1]] # fowner[popped[2]]
  /\ \E t, u \in Threads : t # u /\ fpc[t] = "pop_item" /\ fpc[u] = "pop_notify"

\* C38: under every interleaving of the acquires of the exclusive-priority
\* shared mutex (blocking, try and timed), each unlocked only by a caller
\* that was told true, no step takes the shared or the exclusive count
\* below 0, where an unsigned count wraps, and the global permit count is
\* never above 1.
C38_CountersInRange ==
  /\ [][/\ count_.shared = 0 => count_'.shared >= 0
        /\ count_.exclusive = 0 => count_'.exclusive >= 0]_vars
  /\ [](global_ \in {0, 1})

(***************************************************************************)
(* The exclusive-priority shared mutex used through its blocking calls     *)
(* only: lock_shared(), lock() and the unlocks.                            *)
(***************************************************************************)
NextExclusiveBlocking ==
  \E t \in Threads :
    \/ SmExclusive_lock_shared(t)
    \/ SmExclusive_lock_shared_entry(t)
    \/ SmExclusive_lock_shared_global(t)
    \/ SmExclusive_unlock_shared(t)
    \/ SmExclusive_lock(t)
    \/ SmExclusive_lock_global(t)
    \/ SmExclusive_unlock(t)
    \/ SmExclusive_unlock_count(t)

SpecExclusiveBlocking == InitExclusive /\ [][NextExclusiveBlocking]_vars

\* the next step of a thread that is inside a call or holds the lock
ExclusiveStep(t) ==
  \/ SmExclusive_lock_shared_entry(t)
  \/ SmExclusive_lock_shared_global(t)
  \/ SmExclusive_unlock_shared(t)
  \/ SmExclusive_lock_global(t)
  \/ SmExclusive_unlock(t)
  \/ SmExclusive_unlock_count(t)

\* thread t cannot go on: inside a call or holding the lock with its next
\* step disabled, or outside any call in a state where a blocking call
\* would wait, lock_shared() at the gate or lock() at shared_
ExclusiveBlocked(t) ==
  IF mpc[t] = "idle"
    THEN ~cond_ \/ shared_ # 0
    ELSE ~ENABLED ExclusiveStep(t)

\* C39: with lock(), lock_shared() and holders that unlock, no reachable
\* state of the exclusive-priority shared mutex has every thread blocked;
\* a first reader that holds shared_ while it waits for global_, and a
\* writer inside unlock() that needs shared_, are never stuck for good: the
\* writer has given global_ back before it asks for shared_, so the reader
\* can take it, or a later writer has it and can give it back.
C39_NoDeadlock ==
  /\ \E t \in Threads : ~ExclusiveBlocked(t)
  /\ \A r, w \in Threads :
       (mpc[r] = "lock_shared_global" /\ mpc[w] = "unlock_count")
          => \/ ENABLED SmExclusive_lock_shared_global(r)
             \/ \E u \in Threads : ENABLED SmExclusive_unlock(u)

\* a first reader holds shared_ and waits for global_, a writer inside
\* unlock() waits for shared_, and the third thread is queued in lock()
C39_Witness ==
  \E r, w, q \in Threads :
    /\ mpc[r] = "lock_shared_global" /\ shared_ = r
    /\ mpc[w] = "unlock_count" /\ ~ENABLED SmExclusive_unlock_count(w)
    /\ mpc[q] = "lock_global"

====
